---- MODULE Spec2Model ----
(***************************************************************************)
(* A model of pynorad's object model (pynorad/__init__.py): the Font, its  *)
(* LayerSet, the Layers and their Glyphs, the bounds and margin queries   *)
(* and the margin setters of a Glyph, and the object libraries.  Objects   *)
(* that Python compares with `is` are held in a heap and named by their    *)
(* index in it.                                                            *)
(***************************************************************************)
EXTENDS Integers, Sequences, FiniteSets, TLC

VARIABLES
    layers,     \* the font's layer set: a sequence of layers, the default one first
    heap,       \* the Glyph objects ever created, by identity (index)
    last,       \* the last call made: its name, its arguments and how it ended
    ctorIn,     \* the arguments of a LayerSet construction
    ctorOut,    \* what that construction produced
    ufo,        \* a font with its library-bearing objects, their libraries and its file
    twin        \* a second font made from that font, by deepcopy or by save and open

vars == <<layers, heap, last, ctorIn, ctorOut, ufo, twin>>

----------------------------------------------------------------------------
(* Bounds of the model *)

MaxLayers == 2          \* layers of one layer set
MaxGlyphs == 2          \* Glyph objects created in one run
MaxEntries == 3         \* entries of the iterable given to LayerSet.from_iterable
MaxContours == 1        \* contours appended in one run
MaxMapping == 2         \* layers of the mapping given to LayerSet(...)
MaxDepth == 3           \* nested component drawings before the interpreter gives up

----------------------------------------------------------------------------
(* Names and errors *)

DEFAULT_LAYER_NAME == "public.default"

LayerNames == {DEFAULT_LAYER_NAME, "abc", "fg"}

GlyphNames == {"a", "b"}

\* Glyph().name is None; Layer.__init__ treats "" the same way
NoName == "<None>"

OK == "ok"

\* The exceptions of the source, under the names the design gives them
EmptyLayerSet == "EmptyLayerSet"            \* ValueError, LayerSet.__init__
NoDefaultLayer == "NoDefaultLayer"          \* ValueError, __init__ and from_iterable
TypeMismatch == "TypeMismatch"              \* TypeError, from_iterable
DuplicateLayerName == "DuplicateLayerName"  \* KeyError, from_iterable
LayerNotFound == "LayerNotFound"
LayerNameCollision == "LayerNameCollision"
UnnamedGlyph == "UnnamedGlyph"
GlyphNameCollision == "GlyphNameCollision"
GlyphNotFound == "GlyphNotFound"
\* Exceptions of the interpreter that the design does not name
UnpackError == "ValueError(unpack)"
AttributeError == "AttributeError"
KeyError == "KeyError"

----------------------------------------------------------------------------
(* Sequences *)

Range(s) == {s[i] : i \in 1..Len(s)}

RECURSIVE SeqsUpTo(_, _)
SeqsUpTo(S, n) ==
    IF n = 0 THEN {<<>>}
    ELSE LET shorter == SeqsUpTo(S, n - 1)
         IN  shorter \cup {Append(s, x) : s \in {t \in shorter : Len(t) = n - 1}, x \in S}

RemoveAt(s, i) == SubSeq(s, 1, i - 1) \o SubSeq(s, i + 1, Len(s))

----------------------------------------------------------------------------
(* The layer set *)

NewLayerRec(name) == [name |-> name, glyphs |-> <<>>]

LayerNamesOf(ls) == {ls[i].name : i \in 1..Len(ls)}

LayerIndex(ls, name) == CHOOSE i \in 1..Len(ls) : ls[i].name = name

\* PyFont(): a font with the one layer public.default
LayerSet_default == <<NewLayerRec(DEFAULT_LAYER_NAME)>>

\* PyFont.from_layers: the layers in the order given, the first one the default
from_layers(ls) == ls

\* The index of the default layer
default_layer(ls) == 1

NoFont == <<>>

\* LayerSet.__init__(layers=mapping, defaultLayer=dlayer).  mapping is a sequence
\* of [key, isLayer, id, name]; dlayer is the id of a Layer object, 0 for None.
InitOutBadUnpack(mapping) ==
    IF Len(mapping[1].key) = 2 THEN AttributeError ELSE UnpackError

\* LayerSet.__init__ without its `del layers[defaultLayer.name]`: the default
\* layer is handed to from_layers twice
LayerSet___init___keepsDefault(mapping, dlayer) ==
    IF Len(mapping) = 0
    THEN [err |-> EmptyLayerSet, font |-> NoFont, mapping |-> mapping]
    ELSE IF ~ \E i \in 1..Len(mapping) : mapping[i].id = dlayer
    THEN [err |-> NoDefaultLayer, font |-> NoFont, mapping |-> mapping]
    ELSE LET d == CHOOSE i \in 1..Len(mapping) : mapping[i].id = dlayer
         IN  [err |-> OK,
              font |-> from_layers(<<NewLayerRec(mapping[d].name)>>
                         \o [i \in 1..Len(mapping) |-> NewLayerRec(mapping[i].name)]),
              mapping |-> mapping]

LayerSet___init__(mapping, dlayer) ==
    IF Len(mapping) = 0
    THEN [err |-> EmptyLayerSet, font |-> NoFont, mapping |-> mapping]
    ELSE IF ~ \E i \in 1..Len(mapping) : mapping[i].id = dlayer
    THEN [err |-> NoDefaultLayer, font |-> NoFont, mapping |-> mapping]
    ELSE LET d == CHOOSE i \in 1..Len(mapping) : mapping[i].id = dlayer
             dname == mapping[d].name
         IN  IF ~ \E i \in 1..Len(mapping) : mapping[i].key = dname
             THEN [err |-> KeyError, font |-> NoFont, mapping |-> mapping]
             ELSE LET k == CHOOSE i \in 1..Len(mapping) : mapping[i].key = dname
                      rest == RemoveAt(mapping, k)     \* del layers[defaultLayer.name]
                  IN  IF Len(rest) > 0
                      THEN \* for (name, layer) in layers: unpacks a key, a string
                           [err |-> InitOutBadUnpack(rest), font |-> NoFont,
                            mapping |-> rest]
                      ELSE [err |-> OK,
                            font |-> from_layers(<<NewLayerRec(dname)>>),
                            mapping |-> rest]

\* The loop of from_iterable without its test for a repeated name
RECURSIVE FromIterableScan_noDuplicateTest(_, _, _)
FromIterableScan_noDuplicateTest(value, i, seen) ==
    IF i > Len(value) THEN [err |-> OK, layers |-> seen]
    ELSE IF ~ value[i].isLayer THEN [err |-> TypeMismatch, layers |-> seen]
    ELSE FromIterableScan_noDuplicateTest(value, i + 1,
            Append(SelectSeq(seen, LAMBDA e : e.key # value[i].name),
                   [key |-> value[i].name, isLayer |-> TRUE,
                    id |-> value[i].id, name |-> value[i].name]))

\* The loop of LayerSet.from_iterable over value[i..]: the first entry that is
\* not a Layer or repeats a name ends it.
RECURSIVE FromIterableScan(_, _, _)
FromIterableScan(value, i, seen) ==
    IF i > Len(value) THEN [err |-> OK, layers |-> seen]
    ELSE IF ~ value[i].isLayer THEN [err |-> TypeMismatch, layers |-> seen]
    ELSE IF \E j \in 1..Len(seen) : seen[j].key = value[i].name
    THEN [err |-> DuplicateLayerName, layers |-> seen]
    ELSE FromIterableScan(value, i + 1,
            Append(seen, [key |-> value[i].name, isLayer |-> TRUE,
                          id |-> value[i].id, name |-> value[i].name]))

LayerSet_from_iterable(value, defaultLayerName) ==
    LET scan == FromIterableScan(value, 1, <<>>)
    IN  IF scan.err # OK
        THEN [err |-> scan.err, font |-> NoFont, mapping |-> scan.layers]
        ELSE IF ~ \E j \in 1..Len(scan.layers) : scan.layers[j].key = defaultLayerName
        THEN [err |-> NoDefaultLayer, font |-> NoFont, mapping |-> scan.layers]
        ELSE LET d == CHOOSE j \in 1..Len(scan.layers) :
                          scan.layers[j].key = defaultLayerName
             IN  LayerSet___init__(scan.layers, scan.layers[d].id)

\* PyFont.new_layer
new_layer(ls, name) ==
    IF name \in LayerNamesOf(ls)
    THEN [err |-> DuplicateLayerName, layers |-> ls]
    ELSE [err |-> OK, layers |-> Append(ls, NewLayerRec(name))]

\* PyFont.rename_layer
rename_layer(ls, old, new, overwrite) ==
    IF old \notin LayerNamesOf(ls) THEN [err |-> LayerNotFound, layers |-> ls]
    ELSE IF old = new THEN [err |-> OK, layers |-> ls]
    ELSE IF new \in LayerNamesOf(ls) /\ ~ overwrite
    THEN [err |-> LayerNameCollision, layers |-> ls]
    ELSE LET kept == IF new \in LayerNamesOf(ls)
                     THEN RemoveAt(ls, LayerIndex(ls, new)) ELSE ls
             i == LayerIndex(kept, old)
         IN  [err |-> OK, layers |-> [kept EXCEPT ![i].name = new]]

LayerSet_newLayer(ls, name) == new_layer(ls, name)

\* renameLayer that does not pass its overwrite argument on
LayerSet_renameLayer_forced(ls, old, new, overwrite) == rename_layer(ls, old, new, TRUE)

LayerSet_renameLayer(ls, old, new, overwrite) == rename_layer(ls, old, new, overwrite)

Font_renameLayer(ls, old, new, overwrite) == LayerSet_renameLayer(ls, old, new, overwrite)

Font_newLayer(ls, name) == new_layer(ls, name)

----------------------------------------------------------------------------
(* Glyphs and the glyphs of a layer *)

\* PyGlyph.concrete: Glyph(name, width, ...); the name "" is no name
NewGlyphRec(name) ==
    [name |-> name, width |-> 0, height |-> 0, voSet |-> FALSE, verticalOrigin |-> 0,
     contours |-> <<>>, components |-> <<>>, anchors |-> <<>>]

\* Point(x, y, segmentType)
Pt(x, y, type) == [x |-> x, y |-> y, type |-> type]

\* Glyph.appendContour
Glyph_appendContour(glyph, contour) == [glyph EXCEPT !.contours = Append(@, contour)]

InvalidSegmentKind == "InvalidSegmentKind"    \* ValueError("Unknown segment type ...")

\* The point types of the binding, in the order of their codes 0..4
PointTypes == <<"move", "line", "offcurve", "curve", "qcurve">>

Encoded(err, code) == [err |-> err, code |-> code]

\* encodeSegmentType that takes every unknown segment type for no segment type
encodeSegmentType_lenient(segmentType) ==
    IF segmentType = "move" THEN Encoded(OK, 0)
    ELSE IF segmentType = "line" THEN Encoded(OK, 1)
    ELSE IF segmentType = "curve" THEN Encoded(OK, 3)
    ELSE IF segmentType = "qcurve" THEN Encoded(OK, 4)
    ELSE Encoded(OK, 2)

\* encodeSegmentType(segmentType): NoName stands for None, the segment type of
\* an off-curve point
encodeSegmentType(segmentType) ==
    IF segmentType = "move" THEN Encoded(OK, 0)
    ELSE IF segmentType = "line" THEN Encoded(OK, 1)
    ELSE IF segmentType = NoName THEN Encoded(OK, 2)
    ELSE IF segmentType = "curve" THEN Encoded(OK, 3)
    ELSE IF segmentType = "qcurve" THEN Encoded(OK, 4)
    ELSE Encoded(InvalidSegmentKind, 0)

\* PyPoint.concrete(x, y, typ, ...)
PyPoint_concrete(x, y, typ) == Pt(x, y, PointTypes[typ + 1])

\* Point(x, y, segmentType)
Point___init__(x, y, segmentType) ==
    LET typ == encodeSegmentType(segmentType)
    IN  IF typ.err # OK THEN [err |-> typ.err, point |-> Pt(0, 0, NoName)]
        ELSE [err |-> OK, point |-> PyPoint_concrete(x, y, typ.code)]

\* PyPointPen.add_point(pt, typ, ...): a point at the end of the path begun
add_point(glyph, pt, typ) ==
    [glyph EXCEPT !.contours[Len(glyph.contours)] =
        Append(@, PyPoint_concrete(pt[1], pt[2], typ))]

\* GlyphPointPen.addPoint(pt, segmentType)
GlyphPointPen_addPoint(glyph, pt, segmentType) ==
    LET typ == encodeSegmentType(segmentType)
    IN  IF typ.err # OK THEN [err |-> typ.err, glyph |-> glyph, code |-> typ.code]
        ELSE [err |-> OK, glyph |-> add_point(glyph, pt, typ.code), code |-> typ.code]

GlyphKeys(layer) == {layer.glyphs[i].key : i \in 1..Len(layer.glyphs)}

GlyphIds(layer) == {layer.glyphs[i].gid : i \in 1..Len(layer.glyphs)}

KeyIndex(layer, key) == CHOOSE i \in 1..Len(layer.glyphs) : layer.glyphs[i].key = key

\* PyLayer.glyph(name): the glyph stored under name, 0 when there is none
GlyphAt(layer, key) ==
    IF key \in GlyphKeys(layer) THEN layer.glyphs[KeyIndex(layer, key)].gid ELSE 0

\* An insertion-ordered mapping: an existing key keeps its place
PutGlyph(glyphs, key, gid) ==
    IF \E i \in 1..Len(glyphs) : glyphs[i].key = key
    THEN [i \in 1..Len(glyphs) |->
            IF glyphs[i].key = key THEN [key |-> key, gid |-> gid] ELSE glyphs[i]]
    ELSE Append(glyphs, [key |-> key, gid |-> gid])

DropKey(glyphs, key) ==
    IF \E i \in 1..Len(glyphs) : glyphs[i].key = key
    THEN RemoveAt(glyphs, CHOOSE i \in 1..Len(glyphs) : glyphs[i].key = key)
    ELSE glyphs

Outcome(err, ls, hp, ret) == [err |-> err, layers |-> ls, heap |-> hp, ret |-> ret]

\* PyLayer.insert_glyph(glyph, name, overwrite, copy)
insert_glyph(ls, hp, li, g, name, overwrite, copy) ==
    LET resolved == IF name # NoName THEN name ELSE hp[g].name
    IN  IF resolved = NoName THEN Outcome(UnnamedGlyph, ls, hp, 0)
        ELSE IF ~ overwrite /\ resolved \in GlyphKeys(ls[li])
        THEN Outcome(GlyphNameCollision, ls, hp, 0)
        ELSE IF copy
        THEN LET c == Len(hp) + 1
             IN  Outcome(OK,
                    [ls EXCEPT ![li].glyphs = PutGlyph(@, resolved, c)],
                    Append(hp, [hp[g] EXCEPT !.name = resolved]), c)
        ELSE Outcome(OK,
                [ls EXCEPT ![li].glyphs = PutGlyph(@, resolved, g)],
                [hp EXCEPT ![g].name = resolved], g)

\* PyLayer.new_glyph(name)
new_glyph(ls, hp, li, name) ==
    IF name \in GlyphKeys(ls[li]) THEN Outcome(GlyphNameCollision, ls, hp, 0)
    ELSE LET c == Len(hp) + 1
         IN  Outcome(OK, [ls EXCEPT ![li].glyphs = Append(@, [key |-> name, gid |-> c])],
                     Append(hp, NewGlyphRec(name)), c)

\* PyLayer.rename_glyph(old, new, overwrite)
rename_glyph(ls, hp, li, old, new, overwrite) ==
    IF old \notin GlyphKeys(ls[li]) THEN Outcome(GlyphNotFound, ls, hp, 0)
    ELSE IF new # old /\ new \in GlyphKeys(ls[li]) /\ ~ overwrite
    THEN Outcome(GlyphNameCollision, ls, hp, 0)
    ELSE IF new = old THEN Outcome(OK, ls, hp, 0)
    ELSE LET g == GlyphAt(ls[li], old)
             kept == DropKey(ls[li].glyphs, new)
         IN  Outcome(OK,
                [ls EXCEPT ![li].glyphs =
                    [i \in 1..Len(kept) |->
                        IF kept[i].key = old THEN [key |-> new, gid |-> g] ELSE kept[i]]],
                [hp EXCEPT ![g].name = new], 0)

\* PyLayer.__delitem__(name)
delete_glyph(ls, hp, li, name) ==
    IF name \notin GlyphKeys(ls[li]) THEN Outcome(GlyphNotFound, ls, hp, 0)
    ELSE Outcome(OK, [ls EXCEPT ![li].glyphs = DropKey(@, name)], hp, 0)

\* insertGlyph that does not hand its overwrite argument on
Layer_insertGlyph_overwrites(ls, hp, li, g, name, overwrite, copy) ==
    insert_glyph(ls, hp, li, g, name, TRUE, copy)

\* insertGlyph that does not hand its copy argument on
Layer_insertGlyph_moves(ls, hp, li, g, name, overwrite, copy) ==
    insert_glyph(ls, hp, li, g, name, overwrite, FALSE)

Layer_insertGlyph(ls, hp, li, g, name, overwrite, copy) ==
    insert_glyph(ls, hp, li, g, name, overwrite, copy)

\* addGlyph that leaves insertGlyph's defaults (overwrite=True, copy=True) in place
Layer_addGlyph_defaults(ls, hp, li, g) == Layer_insertGlyph(ls, hp, li, g, NoName, TRUE, TRUE)

Layer_addGlyph(ls, hp, li, g) == Layer_insertGlyph(ls, hp, li, g, NoName, FALSE, FALSE)

Layer___setitem__(ls, hp, li, name, g) == Layer_insertGlyph(ls, hp, li, g, name, TRUE, FALSE)

Layer_newGlyph(ls, hp, li, name) == new_glyph(ls, hp, li, name)

\* renameGlyph without its test of old against new
Layer_renameGlyph_unguarded(ls, hp, li, old, new, overwrite) ==
    rename_glyph(ls, hp, li, old, new, overwrite)

Layer_renameGlyph(ls, hp, li, old, new, overwrite) ==
    IF old # new THEN rename_glyph(ls, hp, li, old, new, overwrite)
    ELSE Outcome(OK, ls, hp, 0)

Layer___contains__(ls, li, name) == name \in GlyphKeys(ls[li])

Layer___getitem__(ls, hp, li, name) ==
    LET rawGlyph == GlyphAt(ls[li], name)
    IN  IF rawGlyph = 0 THEN Outcome(GlyphNotFound, ls, hp, 0)
        ELSE Outcome(OK, ls, hp, rawGlyph)

Layer___delitem__(ls, hp, li, name) == delete_glyph(ls, hp, li, name)

Layer_keys(ls, li) == [i \in 1..Len(ls[li].glyphs) |-> ls[li].glyphs[i].key]

Layer___len__(ls, li) == Len(ls[li].glyphs)

----------------------------------------------------------------------------
(* Geometry: transforms, bounding boxes and the bounds pens *)

LayerRequired == "LayerRequired"      \* TypeError("layer is required ...")
MissingGlyph == "MissingGlyph"        \* KeyError from the glyph set, with the name
RecursionError == "RecursionError"    \* the interpreter's recursion limit

\* A transform is (xx, xy, yx, yy, dx, dy)
Identity == <<1, 0, 0, 1, 0, 0>>

Translate(dx, dy) == <<1, 0, 0, 1, dx, dy>>

\* Transform.transformPoint
TransformPoint(t, x, y) ==
    [x |-> t[1] * x + t[3] * y + t[5], y |-> t[2] * x + t[4] * y + t[6]]

\* Transform.transform: self applied after other
Transform_transform(self, other) ==
    << other[1] * self[1] + other[2] * self[3],
       other[1] * self[2] + other[2] * self[4],
       other[3] * self[1] + other[4] * self[3],
       other[3] * self[2] + other[4] * self[4],
       self[1] * other[5] + self[3] * other[6] + self[5],
       self[2] * other[5] + self[4] * other[6] + self[6] >>

Min(a, b) == IF a <= b THEN a ELSE b

Max(a, b) == IF a >= b THEN a ELSE b

\* pen.bounds is None
NoBounds == [some |-> FALSE, xMin |-> 0, yMin |-> 0, xMax |-> 0, yMax |-> 0]

BoundingBox(xMin, yMin, xMax, yMax) ==
    [some |-> TRUE, xMin |-> xMin, yMin |-> yMin, xMax |-> xMax, yMax |-> yMax]

\* updateBounds of a pen: the box grown to hold (x, y)
updateBounds(b, x, y) ==
    IF ~ b.some THEN BoundingBox(x, y, x, y)
    ELSE BoundingBox(Min(b.xMin, x), Min(b.yMin, y), Max(b.xMax, x), Max(b.yMax, y))

\* unionBounds without its second test: an absent second box is the result
unionBounds_absentWins(bounds1, bounds2) ==
    IF ~ bounds1.some THEN bounds2
    ELSE IF ~ bounds2.some THEN bounds2
    ELSE BoundingBox(Min(bounds1.xMin, bounds2.xMin), Min(bounds1.yMin, bounds2.yMin),
                     Max(bounds1.xMax, bounds2.xMax), Max(bounds1.yMax, bounds2.yMax))

unionBounds(bounds1, bounds2) ==
    IF ~ bounds1.some THEN bounds2
    ELSE IF ~ bounds2.some THEN bounds1
    ELSE BoundingBox(Min(bounds1.xMin, bounds2.xMin), Min(bounds1.yMin, bounds2.yMin),
                     Max(bounds1.xMax, bounds2.xMax), Max(bounds1.yMax, bounds2.yMax))

\* The extreme value of one coordinate of the quadratic curve with control
\* values p0, p1, p2 strictly inside the curve, when it has one: at
\* t = (p0 - p1) / (p0 - 2 p1 + p2) the curve is at (p0 p2 - p1^2) / (p0 - 2 p1 + p2).
\* The contours of the model are chosen so that the division is exact.
QuadraticHasExtremum(p0, p1, p2) ==
    LET n == p0 - p1
        d == p0 - 2 * p1 + p2
    IN  d # 0 /\ n * d > 0 /\ n * n < d * d

QuadraticExtremum(p0, p1, p2) == (p0 * p2 - p1 * p1) \div (p0 - 2 * p1 + p2)

\* BoundsPen._qCurveToOne: the box grown to hold the curve from a over b to c
QuadraticBounds(b0, a, b, c) ==
    LET ends == updateBounds(updateBounds(b0, a.x, a.y), c.x, c.y)
        withX == IF QuadraticHasExtremum(a.x, b.x, c.x)
                 THEN updateBounds(ends, QuadraticExtremum(a.x, b.x, c.x), a.y) ELSE ends
    IN  IF QuadraticHasExtremum(a.y, b.y, c.y)
        THEN updateBounds(withX, a.x, QuadraticExtremum(a.y, b.y, c.y)) ELSE withX

Prev(contour, i) == IF i = 1 THEN Len(contour) ELSE i - 1

\* One contour drawn into a ControlBoundsPen through the transform t: every
\* point counts, off-curve ones included
RECURSIVE ControlBoundsOfContour(_, _, _, _)
ControlBoundsOfContour(contour, i, t, b) ==
    IF i > Len(contour) THEN b
    ELSE LET p == TransformPoint(t, contour[i].x, contour[i].y)
         IN  ControlBoundsOfContour(contour, i + 1, t, updateBounds(b, p.x, p.y))

\* One contour drawn into a BoundsPen through the transform t: the on-curve
\* points and the extremes of the curves between them
RECURSIVE BoundsOfContour(_, _, _, _)
BoundsOfContour(contour, i, t, b) ==
    IF i > Len(contour) THEN b
    ELSE LET p == TransformPoint(t, contour[i].x, contour[i].y)
             q == contour[Prev(contour, i)]
             r == contour[Prev(contour, Prev(contour, i))]
         IN  IF contour[i].type = "offcurve"
             THEN BoundsOfContour(contour, i + 1, t, b)
             ELSE IF contour[i].type = "qcurve" /\ q.type = "offcurve"
             THEN BoundsOfContour(contour, i + 1, t,
                    QuadraticBounds(b, TransformPoint(t, r.x, r.y),
                                    TransformPoint(t, q.x, q.y), p))
             ELSE BoundsOfContour(contour, i + 1, t, updateBounds(b, p.x, p.y))

ContourInto(pen, contour, t, b) ==
    IF pen = "ControlBoundsPen" THEN ControlBoundsOfContour(contour, 1, t, b)
    ELSE BoundsOfContour(contour, 1, t, b)

RECURSIVE ContoursInto(_, _, _, _, _)
ContoursInto(pen, contours, i, t, b) ==
    IF i > Len(contours) THEN b
    ELSE ContoursInto(pen, contours, i + 1, t, ContourInto(pen, contours[i], t, b))

\* The state of a pen while it is drawn into: its bounds, and the exception
\* that ended the drawing
PenState(err, name, bounds) == [err |-> err, name |-> name, bounds |-> bounds]

NewPen == PenState(OK, NoName, NoBounds)

\* Glyph.draw into a bounds pen over the layer ls[li]: the contours, then each
\* component through the pen's addComponent, which looks the base glyph up in the
\* layer and draws it through the composed transform
RECURSIVE GlyphInto(_, _, _, _, _, _, _, _)
RECURSIVE ComponentsInto(_, _, _, _, _, _, _, _, _)
GlyphInto(pen, ls, hp, li, g, t, state, depth) ==
    IF depth > MaxDepth THEN PenState(RecursionError, NoName, state.bounds)
    ELSE ComponentsInto(pen, ls, hp, li, hp[g].components, 1, t,
            PenState(OK, NoName, ContoursInto(pen, hp[g].contours, 1, t, state.bounds)),
            depth)

ComponentsInto(pen, ls, hp, li, components, k, t, state, depth) ==
    IF state.err # OK \/ k > Len(components) THEN state
    ELSE LET base == Layer___getitem__(ls, hp, li, components[k].baseGlyph)
         IN  IF base.err # OK
             THEN PenState(MissingGlyph, components[k].baseGlyph, state.bounds)
             ELSE ComponentsInto(pen, ls, hp, li, components, k + 1, t,
                    GlyphInto(pen, ls, hp, li, base.ret,
                              Transform_transform(t, components[k].transformation),
                              state, depth + 1),
                    depth)

\* What a bounds or margin query gives: an exception (with the glyph name a
\* MissingGlyph carries), or a box or a number, either of which may be None
Result(err, name, some, box, val) ==
    [err |-> err, name |-> name, some |-> some, box |-> box, val |-> val]

NoResult == Result(OK, NoName, FALSE, NoBounds, 0)

Raised(err, name) == Result(err, name, FALSE, NoBounds, 0)

BoxResult(state) ==
    IF state.err # OK THEN Raised(state.err, state.name)
    ELSE Result(OK, NoName, state.bounds.some, state.bounds, 0)

Number(v) == Result(OK, NoName, TRUE, NoBounds, v)

\* Bounded.getBounds giving an empty box at the origin where the pen has none
Bounded_getBounds_zeroBox(ls, hp, li, g) ==
    LET state == GlyphInto("BoundsPen", ls, hp, li, g, Identity, NewPen, 0)
    IN  IF state.err = OK /\ ~ state.bounds.some
        THEN Result(OK, NoName, TRUE, BoundingBox(0, 0, 0, 0), 0)
        ELSE BoxResult(state)

\* Bounded.getBounds / getControlBounds of a glyph
Bounded_getBounds(ls, hp, li, g) ==
    BoxResult(GlyphInto("BoundsPen", ls, hp, li, g, Identity, NewPen, 0))

Bounded_getControlBounds(ls, hp, li, g) ==
    BoxResult(GlyphInto("ControlBoundsPen", ls, hp, li, g, Identity, NewPen, 0))

Component(baseGlyph, transformation) ==
    [baseGlyph |-> baseGlyph, transformation |-> transformation]

\* Component.getBounds / getControlBounds; layer says whether one is supplied
Component_getBounds(ls, hp, li, component, layer) ==
    IF ~ layer THEN Raised(LayerRequired, NoName)
    ELSE BoxResult(ComponentsInto("BoundsPen", ls, hp, li, <<component>>, 1, Identity,
                                  NewPen, 0))

Component_getControlBounds(ls, hp, li, component, layer) ==
    IF ~ layer THEN Raised(LayerRequired, NoName)
    ELSE BoxResult(ComponentsInto("ControlBoundsPen", ls, hp, li, <<component>>, 1,
                                  Identity, NewPen, 0))

\* Glyph.getBounds without its test for components when no layer is given
Glyph_getBounds_noLayerTest(ls, hp, li, g, layer) == Bounded_getBounds(ls, hp, li, g)

Glyph_getBounds(ls, hp, li, g, layer) ==
    IF ~ layer /\ Len(hp[g].components) > 0 THEN Raised(LayerRequired, NoName)
    ELSE Bounded_getBounds(ls, hp, li, g)

Glyph_getControlBounds(ls, hp, li, g, layer) ==
    IF ~ layer /\ Len(hp[g].components) > 0 THEN Raised(LayerRequired, NoName)
    ELSE Bounded_getControlBounds(ls, hp, li, g)

Glyph_getLeftMargin(ls, hp, li, g, layer) ==
    LET bounds == Glyph_getBounds(ls, hp, li, g, layer)
    IN  IF bounds.err # OK \/ ~ bounds.some THEN bounds
        ELSE Number(bounds.box.xMin)

Glyph_getRightMargin(ls, hp, li, g, layer) ==
    LET bounds == Glyph_getBounds(ls, hp, li, g, layer)
    IN  IF bounds.err # OK \/ ~ bounds.some THEN bounds
        ELSE Number(hp[g].width - bounds.box.xMax)

\* getBottomMargin that takes no account of the vertical origin
Glyph_getBottomMargin_noOrigin(ls, hp, li, g, layer) ==
    LET bounds == Glyph_getBounds(ls, hp, li, g, layer)
    IN  IF bounds.err # OK \/ ~ bounds.some THEN bounds
        ELSE Number(bounds.box.yMin)

Glyph_getBottomMargin(ls, hp, li, g, layer) ==
    LET bounds == Glyph_getBounds(ls, hp, li, g, layer)
    IN  IF bounds.err # OK \/ ~ bounds.some THEN bounds
        ELSE IF ~ hp[g].voSet THEN Number(bounds.box.yMin)
        ELSE Number(bounds.box.yMin - (hp[g].verticalOrigin - hp[g].height))

Glyph_getTopMargin(ls, hp, li, g, layer) ==
    LET bounds == Glyph_getBounds(ls, hp, li, g, layer)
    IN  IF bounds.err # OK \/ ~ bounds.some THEN bounds
        ELSE IF ~ hp[g].voSet THEN Number(hp[g].height - bounds.box.yMax)
        ELSE Number(hp[g].verticalOrigin - bounds.box.yMax)

\* The loop of Layer.bounds and Layer.controlPointBounds, from the i-th glyph
\* of the layer on: bounds = unionBounds(bounds, glyph.getBounds(self))
RECURSIVE LayerBoundsFrom(_, _, _, _, _, _)
LayerBoundsFrom(control, ls, hp, li, i, bounds) ==
    IF i > Len(ls[li].glyphs) THEN Result(OK, NoName, bounds.some, bounds, 0)
    ELSE LET g == ls[li].glyphs[i].gid
             q == IF control THEN Glyph_getControlBounds(ls, hp, li, g, TRUE)
                  ELSE Glyph_getBounds(ls, hp, li, g, TRUE)
         IN  IF q.err # OK THEN q
             ELSE LayerBoundsFrom(control, ls, hp, li, i + 1, unionBounds(bounds, q.box))

Layer_bounds(ls, hp, li) == LayerBoundsFrom(FALSE, ls, hp, li, 1, NoBounds)

Layer_controlPointBounds(ls, hp, li) == LayerBoundsFrom(TRUE, ls, hp, li, 1, NoBounds)

\* Anchor(x, y)
Anchor(x, y) == [x |-> x, y |-> y]

ShiftPoints(points, dx, dy) ==
    [i \in 1..Len(points) |-> [points[i] EXCEPT !.x = @ + dx, !.y = @ + dy]]

\* PyGlyph.move((dx, dy)): every contour point, every component and every
\* anchor of the glyph is shifted
Glyph_move(glyph, dx, dy) ==
    [glyph EXCEPT
        !.contours = [i \in 1..Len(@) |-> ShiftPoints(@[i], dx, dy)],
        !.components = [i \in 1..Len(@) |->
                          [@[i] EXCEPT !.transformation =
                              [@ EXCEPT ![5] = @ + dx, ![6] = @ + dy]]],
        !.anchors = ShiftPoints(@, dx, dy)]

\* What a margin setter leaves: the exception raised, and the glyphs
Set(err, hp) == [err |-> err, hp |-> hp]

\* setLeftMargin that changes the width and moves nothing
Glyph_setLeftMargin_noMove(ls, hp, li, g, value, layer) ==
    LET bounds == Glyph_getBounds(ls, hp, li, g, layer)
        diff == value - bounds.box.xMin
    IN  IF bounds.err # OK THEN Set(bounds.err, hp)
        ELSE IF ~ bounds.some THEN Set(OK, hp)
        ELSE IF diff # 0 THEN Set(OK, [hp EXCEPT ![g].width = @ + diff])
        ELSE Set(OK, hp)

Glyph_setLeftMargin(ls, hp, li, g, value, layer) ==
    LET bounds == Glyph_getBounds(ls, hp, li, g, layer)
        diff == value - bounds.box.xMin
    IN  IF bounds.err # OK THEN Set(bounds.err, hp)
        ELSE IF ~ bounds.some THEN Set(OK, hp)
        ELSE IF diff # 0
        THEN Set(OK, [hp EXCEPT ![g] = Glyph_move([@ EXCEPT !.width = @ + diff], diff, 0)])
        ELSE Set(OK, hp)

\* setRightMargin that moves the glyph to the right of its old place, as
\* setLeftMargin does
Glyph_setRightMargin_moves(ls, hp, li, g, value, layer) ==
    LET bounds == Glyph_getBounds(ls, hp, li, g, layer)
        diff == bounds.box.xMax + value - hp[g].width
    IN  IF bounds.err # OK THEN Set(bounds.err, hp)
        ELSE IF ~ bounds.some THEN Set(OK, hp)
        ELSE Set(OK, [hp EXCEPT ![g] = Glyph_move([@ EXCEPT !.width = @ + diff], diff, 0)])

\* setRightMargin that adds the value to the width
Glyph_setRightMargin_adds(ls, hp, li, g, value, layer) ==
    LET bounds == Glyph_getBounds(ls, hp, li, g, layer)
    IN  IF bounds.err # OK THEN Set(bounds.err, hp)
        ELSE IF ~ bounds.some THEN Set(OK, hp)
        ELSE Set(OK, [hp EXCEPT ![g].width = @ + value])

Glyph_setRightMargin(ls, hp, li, g, value, layer) ==
    LET bounds == Glyph_getBounds(ls, hp, li, g, layer)
    IN  IF bounds.err # OK THEN Set(bounds.err, hp)
        ELSE IF ~ bounds.some THEN Set(OK, hp)
        ELSE Set(OK, [hp EXCEPT ![g].width = bounds.box.xMax + value])

\* setBottomMargin that also moves the glyph by the difference
Glyph_setBottomMargin_moves(ls, hp, li, g, value, layer) ==
    LET bounds == Glyph_getBounds(ls, hp, li, g, layer)
        glyph == hp[g]
        oldValue == IF ~ glyph.voSet THEN bounds.box.yMin
                    ELSE bounds.box.yMin - (glyph.verticalOrigin - glyph.height)
        origin == IF ~ glyph.voSet THEN glyph.height ELSE glyph.verticalOrigin
        diff == value - oldValue
    IN  IF bounds.err # OK THEN Set(bounds.err, hp)
        ELSE IF ~ bounds.some THEN Set(OK, hp)
        ELSE Set(OK, [hp EXCEPT ![g] =
                Glyph_move([@ EXCEPT !.voSet = TRUE, !.verticalOrigin = origin,
                                     !.height = @ + diff], 0, diff)])

\* setBottomMargin that leaves an unset vertical origin unset
Glyph_setBottomMargin_noOrigin(ls, hp, li, g, value, layer) ==
    LET bounds == Glyph_getBounds(ls, hp, li, g, layer)
        glyph == hp[g]
        oldValue == IF ~ glyph.voSet THEN bounds.box.yMin
                    ELSE bounds.box.yMin - (glyph.verticalOrigin - glyph.height)
        diff == value - oldValue
    IN  IF bounds.err # OK THEN Set(bounds.err, hp)
        ELSE IF ~ bounds.some THEN Set(OK, hp)
        ELSE Set(OK, [hp EXCEPT ![g].height = @ + diff])

\* The vertical origin is set to the height before the difference is tested
Glyph_setBottomMargin(ls, hp, li, g, value, layer) ==
    LET bounds == Glyph_getBounds(ls, hp, li, g, layer)
        glyph == hp[g]
        oldValue == IF ~ glyph.voSet THEN bounds.box.yMin
                    ELSE bounds.box.yMin - (glyph.verticalOrigin - glyph.height)
        origin == IF ~ glyph.voSet THEN glyph.height ELSE glyph.verticalOrigin
        diff == value - oldValue
    IN  IF bounds.err # OK THEN Set(bounds.err, hp)
        ELSE IF ~ bounds.some THEN Set(OK, hp)
        ELSE Set(OK, [hp EXCEPT ![g].voSet = TRUE, ![g].verticalOrigin = origin,
                                ![g].height = @ + diff])

\* setTopMargin that sets the vertical origin and leaves the height
Glyph_setTopMargin_keepsHeight(ls, hp, li, g, value, layer) ==
    LET bounds == Glyph_getBounds(ls, hp, li, g, layer)
        glyph == hp[g]
        oldValue == IF ~ glyph.voSet THEN glyph.height - bounds.box.yMax
                    ELSE glyph.verticalOrigin - bounds.box.yMax
    IN  IF bounds.err # OK THEN Set(bounds.err, hp)
        ELSE IF ~ bounds.some THEN Set(OK, hp)
        ELSE IF oldValue # value
        THEN Set(OK, [hp EXCEPT ![g].voSet = TRUE,
                                ![g].verticalOrigin = bounds.box.yMax + value])
        ELSE Set(OK, hp)

Glyph_setTopMargin(ls, hp, li, g, value, layer) ==
    LET bounds == Glyph_getBounds(ls, hp, li, g, layer)
        glyph == hp[g]
        oldValue == IF ~ glyph.voSet THEN glyph.height - bounds.box.yMax
                    ELSE glyph.verticalOrigin - bounds.box.yMax
        diff == value - oldValue
    IN  IF bounds.err # OK THEN Set(bounds.err, hp)
        ELSE IF ~ bounds.some THEN Set(OK, hp)
        ELSE IF oldValue # value
        THEN Set(OK, [hp EXCEPT ![g].voSet = TRUE,
                                ![g].verticalOrigin = bounds.box.yMax + value,
                                ![g].height = @ + diff])
        ELSE Set(OK, hp)

----------------------------------------------------------------------------
(* The object library: public.objectLibs of the font's lib and of a glyph's
   lib, keyed by the identifiers of guidelines, anchors, contours, points and
   components.  A bag is a Python dict, held by identity (its index in bags). *)

MaxObjects == 2

NoIdentifier == 0

\* The identifiers that can be generated for the objects of a document
Identifiers == 1..(MaxObjects + 1)

Owners == {"font", "glyph"}

\* The library-bearing objects, named as the tests reach them
FontObjects == {"font.info.guidelines[1]"}

GlyphObjects ==
    {"glyph.guidelines[1]", "glyph.anchors[1]", "glyph.contours[0]",
     "glyph.contours[1].points[0]", "glyph.components[0]"}

Objects == FontObjects \cup GlyphObjects

OwnerOf(obj) == IF obj \in FontObjects THEN "font" ELSE "glyph"

LibKeys == {"com.test.foo"}

LibValues == {1234, 4321}

EmptyBag == [k \in {} |-> 0]

NoTable == [id \in {} |-> 0]

\* bags: the dicts of the process, by identity; the library tables and the
\* data store of a font name their dicts by it
NoUfo ==
    [path |-> NoName, objects |-> {},
     identifier |-> [o \in {} |-> NoIdentifier], x |-> [o \in {} |-> 0],
     objectLibs |-> [o \in Owners |-> NoTable], bags |-> <<>>, held |-> {},
     data |-> 0, layers |-> <<>>]

NoTwin == [made |-> "none"]

\* Font() holding the given objects, none of which has an identifier; its data
\* store is a new FakeDataSet
NewUfo(objects) ==
    [NoUfo EXCEPT !.objects = objects,
                  !.identifier = [o \in objects |-> NoIdentifier],
                  !.x = [o \in objects |-> 0],
                  !.bags = <<EmptyBag>>,
                  !.data = 1,
                  !.layers = LayerSet_default]

\* The identifiers no object has and no library table holds
UnusedIdentifiers(u) ==
    Identifiers \ ({u.identifier[o] : o \in u.objects}
                   \cup UNION {DOMAIN u.objectLibs[o] : o \in Owners})

\* A new identifier: one that no object has and no table holds.  Identifiers
\* are compared and never read, so the least unused one stands for them all
make_identifier(u) ==
    CHOOSE id \in UnusedIdentifiers(u) : \A other \in UnusedIdentifiers(u) : id <= other

\* PyFont.objectLib / PyGlyph.objectLib: the object gets an identifier if it has
\* none, its bag is created in public.objectLibs if it has none, and that bag
\* is returned
objectLib(u, owner, obj, fresh) ==
    LET id == IF u.identifier[obj] = NoIdentifier THEN fresh ELSE u.identifier[obj]
        table == u.objectLibs[owner]
        known == id \in DOMAIN table
        bag == IF known THEN table[id] ELSE Len(u.bags) + 1
    IN  [ufo |-> [u EXCEPT !.identifier[obj] = id,
                          !.objectLibs[owner] =
                              IF known THEN @ ELSE [i \in DOMAIN @ \cup {id} |->
                                                      IF i = id THEN bag ELSE @[i]],
                          !.bags = IF known THEN @ ELSE Append(@, EmptyBag)],
         bag |-> bag]

Font_objectLib_reassigns(u, obj, fresh) ==
    objectLib([u EXCEPT !.identifier[obj] = NoIdentifier], "font", obj, fresh)

\* Font.objectLib
Font_objectLib(u, obj, fresh) == objectLib(u, "font", obj, fresh)

Glyph_objectLib_copies(u, obj, fresh) ==
    LET got == objectLib(u, "glyph", obj, fresh)
    IN  [ufo |-> [got.ufo EXCEPT !.bags = Append(@, @[got.bag])],
         bag |-> Len(got.ufo.bags) + 1]

\* Glyph.objectLib
Glyph_objectLib(u, obj, fresh) == objectLib(u, "glyph", obj, fresh)

\* bag[key] = value
Bag___setitem__(bag, key, value) ==
    [k \in DOMAIN bag \cup {key} |-> IF k = key THEN value ELSE bag[k]]

\* del bag[key]
Bag___delitem__(bag, key) == [k \in DOMAIN bag \ {key} |-> bag[k]]

\* What save writes: every object with its identifier, and of each library
\* table the non-empty bags of the objects of its owner
Persisted(u) ==
    [objects |-> u.objects, identifier |-> u.identifier, x |-> u.x,
     layercontents |->
        [i \in 1..Len(u.layers) |->
            [name |-> u.layers[i].name,
             directory |-> IF i = 1 THEN <<"glyphs">> ELSE <<"glyphs", u.layers[i].name>>,
             glyphs |-> u.layers[i].glyphs]],
     objectLibs |->
        [o \in Owners |->
            LET table == u.objectLibs[o]
                kept == {id \in DOMAIN table :
                            /\ u.bags[table[id]] # EmptyBag
                            /\ \E obj \in u.objects :
                                  OwnerOf(obj) = o /\ u.identifier[obj] = id}
            IN  [id \in kept |-> u.bags[table[id]]]]]

\* save that writes every entry of the library tables
Font_save_writesAll(u) ==
    [Persisted(u) EXCEPT
        !.objectLibs = [o \in Owners |->
                          [id \in DOMAIN u.objectLibs[o] |-> u.bags[u.objectLibs[o][id]]]]]

\* Font.save: the file written
Font_save(u) == Persisted(u)

\* The entries of the file's library tables, in one order
RECURSIVE Entries(_)
Entries(pairs) ==
    IF pairs = {} THEN <<>>
    ELSE LET p == CHOOSE q \in pairs : TRUE
         IN  <<p>> \o Entries(pairs \ {p})

\* The layers of the file: the one of the directory "glyphs" is the default
\* layer and comes first, the others follow in the order of the file
LayersOf(file) ==
    LET lc == file.layercontents
        d == CHOOSE i \in 1..Len(lc) : lc[i].directory = <<"glyphs">>
        rest == SelectSeq(lc, LAMBDA l : l.directory # <<"glyphs">>)
    IN  [i \in 1..Len(lc) |->
            LET l == IF i = 1 THEN lc[d] ELSE rest[i - 1]
            IN  [name |-> l.name, glyphs |-> l.glyphs]]

\* PyFont.load and Font.__init__: the font of the file, each bag of it a new
\* dict, with a new and empty data store
load(file) ==
    LET entries == Entries(UNION {{<<o, id>> : id \in DOMAIN file.objectLibs[o]} :
                                   o \in Owners})
        At(o, id) == CHOOSE i \in 1..Len(entries) : entries[i] = <<o, id>>
    IN  [path |-> "test.ufo", objects |-> file.objects,
         identifier |-> file.identifier, x |-> file.x,
         objectLibs |-> [o \in Owners |->
                           [id \in DOMAIN file.objectLibs[o] |-> At(o, id) + 1]],
         bags |-> [i \in 1..(Len(entries) + 1) |->
                     IF i = 1 THEN EmptyBag
                     ELSE file.objectLibs[entries[i - 1][1]][entries[i - 1][2]]],
         held |-> {},
         data |-> 1,
         layers |-> LayersOf(file)]

\* open that gives the default layer its usual name
Font_open_defaultNamed(file) == [load(file) EXCEPT !.layers[1].name = DEFAULT_LAYER_NAME]

\* Font.open
Font_open(file) == load(file)

\* A font built with dicts of its own joins the process of u: its dicts follow
\* those of u
Adopt(u, font) ==
    LET n == Len(u.bags)
    IN  [ufo |-> [u EXCEPT !.bags = @ \o font.bags],
         font |-> [font EXCEPT
                     !.bags = <<>>,
                     !.data = @ + n,
                     !.objectLibs = [o \in Owners |-> [id \in DOMAIN @[o] |-> @[o][id] + n]],
                     !.held = {[obj |-> h.obj, bag |-> h.bag + n] : h \in @}]]

\* The library of an object as objectLib shows it: the bag of its identifier,
\* and the empty bag when the table has none
LibOf(font, bags, obj) ==
    LET table == font.objectLibs[OwnerOf(obj)]
    IN  IF font.identifier[obj] \in DOMAIN table THEN bags[table[font.identifier[obj]]]
        ELSE EmptyBag

\* PyFont.py_eq: the same objects with the same identifiers, attributes and
\* libraries, and the same layers, the default layer the first of them
py_eq(font, other, bags) ==
    /\ font.objects = other.objects
    /\ font.identifier = other.identifier
    /\ font.x = other.x
    /\ \A obj \in font.objects : LibOf(font, bags, obj) = LibOf(other, bags, obj)
    /\ font.layers = other.layers

\* Font.__eq__
Font___eq__(font, other, bags) == py_eq(font, other, bags)

\* FakeDataSet.__setitem__
FakeDataSet___setitem__(data, fileName, value) == Bag___setitem__(data, fileName, value)

\* FakeDataSet.__delitem__: the entry is deleted, and the statement after the
\* deletion reads _scheduledForDeletion, an attribute no FakeDataSet has
FakeDataSet___delitem__(data, fileName) ==
    IF fileName \notin DOMAIN data
    THEN [err |-> KeyError, data |-> data]
    ELSE [err |-> AttributeError, data |-> Bag___delitem__(data, fileName)]

\* The entries of the library tables of a font, in one order
TableEntries(font) ==
    Entries(UNION {{<<o, id>> : id \in DOMAIN font.objectLibs[o]} : o \in Owners})

\* PyFont.deep_copy: the objects, their identifiers and attributes and the
\* layers are copied, and every bag of the library tables is a new dict with
\* the contents of the bag copied
deep_copy(u) ==
    LET entries == TableEntries(u)
        n == Len(u.bags)
        At(o, id) == CHOOSE i \in 1..Len(entries) : entries[i] = <<o, id>>
    IN  [bags |-> u.bags \o [i \in 1..Len(entries) |->
                               u.bags[u.objectLibs[entries[i][1]][entries[i][2]]]],
         font |-> [u EXCEPT
                     !.bags = <<>>,
                     !.held = {},
                     !.objectLibs = [o \in Owners |->
                                       [id \in DOMAIN @[o] |-> n + At(o, id)]]]]

\* deepcopy that hands the data store of the font to the copy
Font___deepcopy___sharesData(u) ==
    LET copied == deep_copy(u)
    IN  [bags |-> copied.bags,
         font |-> [copied.font EXCEPT !.path = NoName, !.data = u.data]]

\* Font.__deepcopy__: a Font without a path, around the deep copy of the
\* binding's font and with deep copies of the data store and the features
Font___deepcopy__(u) ==
    LET copied == deep_copy(u)
    IN  [bags |-> Append(copied.bags, u.bags[u.data]),
         font |-> [copied.font EXCEPT !.path = NoName, !.data = Len(copied.bags) + 1]]

----------------------------------------------------------------------------
(* The record of the last call *)

NoCall ==
    [op |-> "none", err |-> OK, li |-> 0, name |-> NoName, new |-> NoName,
     overwrite |-> FALSE, copy |-> FALSE, gid |-> 0, ret |-> 0,
     layer |-> FALSE, component |-> Component(NoName, Identity), q |-> NoResult,
     value |-> 0, calls |-> 0]
\* ret: the glyph a call returned or stored; for renameLayer, the number of layers
\* before the call.  layer: whether a bounds or margin query was given the
\* layer.  q: what the query gave.  value: the margin asked for.  calls: the
\* margin setter calls made so far.

Call(op, err) == [NoCall EXCEPT !.op = op, !.err = err]

----------------------------------------------------------------------------
(* The Font: its glyph operations are those of its default layer *)

\* The default layer looked up under DEFAULT_LAYER_NAME
Font_defaultLayer_byName(ls) ==
    IF DEFAULT_LAYER_NAME \in LayerNamesOf(ls) THEN LayerIndex(ls, DEFAULT_LAYER_NAME)
    ELSE default_layer(ls)

\* Font.layers.defaultLayer: Layer.proxy(self._font.default_layer())
Font_defaultLayer(ls) == default_layer(ls)

\* Font.bounds, Font.controlPointBounds: those of the default layer
Font_bounds(ls, hp) == Layer_bounds(ls, hp, Font_defaultLayer(ls))

Font_controlPointBounds(ls, hp) == Layer_controlPointBounds(ls, hp, Font_defaultLayer(ls))

Font___len__(ls) == Layer___len__(ls, default_layer(ls))

Font___getitem__(ls, hp, name) == Layer___getitem__(ls, hp, Font_defaultLayer(ls), name)

Font___setitem__(ls, hp, name, g) == Layer___setitem__(ls, hp, Font_defaultLayer(ls), name, g)

Font___delitem__(ls, hp, name) == Layer___delitem__(ls, hp, Font_defaultLayer(ls), name)

Font___contains__(ls, name) == Layer___contains__(ls, Font_defaultLayer(ls), name)

Font_keys(ls) == Layer_keys(ls, Font_defaultLayer(ls))

Font_addGlyph(ls, hp, g) == Layer_addGlyph(ls, hp, default_layer(ls), g)

Font_newGlyph(ls, hp, name) == Layer_newGlyph(ls, hp, Font_defaultLayer(ls), name)

Font_renameGlyph(ls, hp, old, new, overwrite) ==
    Layer_renameGlyph(ls, hp, Font_defaultLayer(ls), old, new, overwrite)

\* Font.__iter__: the glyphs of the default layer, in its order
Font___iter__(ls) ==
    [i \in 1..Len(ls[default_layer(ls)].glyphs) |-> ls[default_layer(ls)].glyphs[i].gid]

----------------------------------------------------------------------------
(* Actions: one per call *)

NoCtor == [call |-> "none"]

Apply(r, call) ==
    /\ Len(r.heap) <= MaxGlyphs
    /\ layers' = r.layers
    /\ heap' = r.heap
    /\ last' = [call EXCEPT !.err = r.err, !.ret = r.ret]
    /\ UNCHANGED <<ctorIn, ctorOut, ufo, twin>>

\* Glyph(name): a new, detached glyph
NewGlyphObject(name) ==
    /\ Len(heap) < MaxGlyphs
    /\ heap' = Append(heap, NewGlyphRec(name))
    /\ last' = [Call("Glyph", OK) EXCEPT !.name = name, !.ret = Len(heap) + 1]
    /\ UNCHANGED <<layers, ctorIn, ctorOut, ufo, twin>>

\* The contours of the glyphs i.. of the heap, counted
RECURSIVE ContoursDrawn(_, _)
ContoursDrawn(hp, i) ==
    IF i > Len(hp) THEN 0 ELSE Len(hp[i].contours) + ContoursDrawn(hp, i + 1)

\* glyph.appendContour(Contour([Point(1, 2)])), through any handle on the glyph
AppendContour(g) ==
    /\ ContoursDrawn(heap, 1) < MaxContours
    /\ heap' = [heap EXCEPT ![g] = Glyph_appendContour(@, <<Pt(1, 2, "offcurve")>>)]
    /\ last' = [Call("appendContour", OK) EXCEPT !.gid = g]
    /\ UNCHANGED <<layers, ctorIn, ctorOut, ufo, twin>>

InsertGlyph(li, g, name, overwrite, copy) ==
    Apply(Layer_insertGlyph(layers, heap, li, g, name, overwrite, copy),
          [Call("insertGlyph", OK) EXCEPT !.li = li, !.gid = g, !.name = name,
                !.overwrite = overwrite, !.copy = copy])

AddGlyph(li, g) ==
    Apply(Layer_addGlyph(layers, heap, li, g),
          [Call("addGlyph", OK) EXCEPT !.li = li, !.gid = g])

SetItem(li, name, g) ==
    Apply(Layer___setitem__(layers, heap, li, name, g),
          [Call("Layer.__setitem__", OK) EXCEPT !.li = li, !.gid = g, !.name = name])

NewGlyph(li, name) ==
    Apply(Layer_newGlyph(layers, heap, li, name),
          [Call("newGlyph", OK) EXCEPT !.li = li, !.name = name])

RenameGlyph(li, old, new, overwrite) ==
    Apply(Layer_renameGlyph(layers, heap, li, old, new, overwrite),
          [Call("renameGlyph", OK) EXCEPT !.li = li, !.name = old, !.new = new,
                !.overwrite = overwrite])

DelItem(li, name) ==
    Apply(Layer___delitem__(layers, heap, li, name),
          [Call("Layer.__delitem__", OK) EXCEPT !.li = li, !.name = name])

FontSetItem(name, g) ==
    Apply(Font___setitem__(layers, heap, name, g),
          [Call("Font.__setitem__", OK) EXCEPT !.gid = g, !.name = name])

FontDelItem(name) ==
    Apply(Font___delitem__(layers, heap, name),
          [Call("Font.__delitem__", OK) EXCEPT !.name = name])

FontAddGlyph(g) ==
    Apply(Font_addGlyph(layers, heap, g), [Call("Font.addGlyph", OK) EXCEPT !.gid = g])

FontNewGlyph(name) ==
    Apply(Font_newGlyph(layers, heap, name),
          [Call("Font.newGlyph", OK) EXCEPT !.name = name])

FontRenameGlyph(old, new, overwrite) ==
    Apply(Font_renameGlyph(layers, heap, old, new, overwrite),
          [Call("Font.renameGlyph", OK) EXCEPT !.name = old, !.new = new,
                !.overwrite = overwrite])

NewLayer(name) ==
    LET r == LayerSet_newLayer(layers, name)
    IN  /\ Len(r.layers) <= MaxLayers
        /\ layers' = r.layers
        /\ last' = [Call("newLayer", r.err) EXCEPT !.name = name]
        /\ UNCHANGED <<heap, ctorIn, ctorOut, ufo, twin>>

RenameLayer(old, new, overwrite) ==
    LET r == Font_renameLayer(layers, old, new, overwrite)
    IN  /\ layers' = r.layers
        /\ last' = [Call("renameLayer", r.err) EXCEPT !.name = old, !.new = new,
                        !.overwrite = overwrite, !.ret = Len(layers)]
        /\ UNCHANGED <<heap, ctorIn, ctorOut, ufo, twin>>

----------------------------------------------------------------------------
(* The layer set alone: created by LayerSet.default() or constructed by       *)
(* LayerSet.from_iterable, then edited by newLayer and renameLayer            *)

Entry(i, isLayer, name) == [key |-> name, isLayer |-> isLayer, id |-> i, name |-> name]

\* The iterables given to from_iterable: Layers and values that are no Layer
EntryKinds == {[isLayer |-> TRUE, name |-> n] : n \in LayerNames}
                \cup {[isLayer |-> FALSE, name |-> NoName]}

FromIterableInputs ==
    {[i \in 1..Len(s) |-> Entry(i, s[i].isLayer, s[i].name)] : s \in SeqsUpTo(EntryKinds, MaxEntries)}

ConstructedLayerSets ==
    {LayerSet_from_iterable(v, d).font :
        <<v, d>> \in {x \in FromIterableInputs \X LayerNames :
                        LayerSet_from_iterable(x[1], x[2]).err = OK}}

InitLayerSet ==
    /\ layers \in {LayerSet_default} \cup ConstructedLayerSets
    /\ heap = <<>>
    /\ last = NoCall
    /\ ufo = NoUfo
    /\ twin = NoTwin
    /\ ctorIn = NoCtor
    /\ ctorOut = NoCtor

NextLayerSet ==
    \/ \E n \in LayerNames : NewLayer(n)
    \/ \E old \in LayerNames, new \in LayerNames, ow \in BOOLEAN : RenameLayer(old, new, ow)

SpecLayerSet == InitLayerSet /\ [][NextLayerSet]_vars

NamesDistinct(ls) == \A i, j \in 1..Len(ls) : ls[i].name = ls[j].name => i = j

ExactlyOneDefault(ls) ==
    /\ default_layer(ls) \in 1..Len(ls)
    /\ Cardinality({i \in 1..Len(ls) : ls[i].name = ls[default_layer(ls)].name}) = 1

\* C1: in every state reached from a created or constructed layer set by newLayer
\* and renameLayer calls (overwrite or not, renames of or onto the default layer
\* included) the layer set has at least one layer, the layer names are distinct
\* and exactly one layer is the default layer.
C1_LayerSetInvariant ==
    /\ Len(layers) >= 1
    /\ NamesDistinct(layers)
    /\ ExactlyOneDefault(layers)

\* A rename with overwrite whose target name was taken, ending on the default layer
C1_Witness ==
    /\ last.op = "renameLayer" /\ last.err = OK /\ last.overwrite
    /\ last.name # last.new
    /\ last.ret = Len(layers) + 1
    /\ layers[default_layer(layers)].name = last.new

\* C3: renameLayer(old, new, overwrite) fails with LayerNotFound when old is no
\* layer name; with old present it succeeds and changes nothing when new = old,
\* fails with LayerNameCollision when new is another existing name and overwrite
\* is false; after a successful rename with old # new, old is no layer name and
\* new is one.  A failed call leaves the layer set as it was.
C3_RenameLayerStep ==
    LET old == last'.name
        new == last'.new
        names == LayerNamesOf(layers)
    IN  last'.op = "renameLayer" =>
          /\ old \notin names => last'.err = LayerNotFound /\ layers' = layers
          /\ (old \in names /\ new \in names /\ new # old /\ ~ last'.overwrite)
                => last'.err = LayerNameCollision /\ layers' = layers
          /\ (old \in names /\ new = old) => last'.err = OK /\ layers' = layers
          /\ (last'.err = OK /\ old # new)
                => old \notin LayerNamesOf(layers') /\ new \in LayerNamesOf(layers')

\* C3: every renameLayer call keeps the contract stated above: LayerNotFound for
\* an absent old, no change for new = old, LayerNameCollision for a taken new
\* without overwrite, and old gone and new present after a successful rename
C3_RenameLayerContract == [][C3_RenameLayerStep]_vars

\* A rename onto an existing name with overwrite, and a refused one, both seen
C3_Witness ==
    /\ last.op = "renameLayer" /\ last.err = LayerNameCollision
    /\ last.name \in LayerNamesOf(layers) /\ last.new \in LayerNamesOf(layers)
    /\ last.name # last.new

----------------------------------------------------------------------------
(* One layer and its glyphs: Font(), then glyphs made, inserted, renamed,     *)
(* deleted and edited                                                         *)

InitFont ==
    /\ layers = LayerSet_default
    /\ heap = <<>>
    /\ last = NoCall
    /\ ufo = NoUfo
    /\ twin = NoTwin
    /\ ctorIn = NoCtor
    /\ ctorOut = NoCtor

Glyphs == 1..Len(heap)

LayerIds == 1..Len(layers)

NextLayer ==
    \/ \E n \in GlyphNames \cup {NoName} : NewGlyphObject(n)
    \/ \E g \in Glyphs : AppendContour(g)
    \/ \E li \in LayerIds, g \in Glyphs, n \in GlyphNames \cup {NoName},
          ow \in BOOLEAN, cp \in BOOLEAN : InsertGlyph(li, g, n, ow, cp)
    \/ \E li \in LayerIds, g \in Glyphs : AddGlyph(li, g)
    \/ \E li \in LayerIds, g \in Glyphs, n \in GlyphNames : SetItem(li, n, g)
    \/ \E li \in LayerIds, n \in GlyphNames : NewGlyph(li, n)
    \/ \E li \in LayerIds, old \in GlyphNames, new \in GlyphNames, ow \in BOOLEAN :
          RenameGlyph(li, old, new, ow)
    \/ \E li \in LayerIds, n \in GlyphNames : DelItem(li, n)

SpecLayer == InitFont /\ [][NextLayer]_vars

\* The glyphs of a layer as a caller sees them: the names, in order, each with
\* the identity and the contents of its glyph
LayerView(ls, hp, li) ==
    [i \in 1..Len(ls[li].glyphs) |->
        [key |-> ls[li].glyphs[i].key, gid |-> ls[li].glyphs[i].gid,
         glyph |-> hp[ls[li].glyphs[i].gid]]]

ResolvedName(hp, g, name) == IF name # NoName THEN name ELSE hp[g].name

\* C4: insertGlyph fails with UnnamedGlyph when neither the name argument nor
\* the glyph gives a name, and with GlyphNameCollision when overwrite is false
\* and the resolved name is in the layer; either way the layer's glyphs stay
\* as they were.
C4_InsertGlyphStep ==
    LET li == last'.li
        resolved == ResolvedName(heap, last'.gid, last'.name)
    IN  last'.op = "insertGlyph" =>
          /\ resolved = NoName =>
                /\ last'.err = UnnamedGlyph
                /\ LayerView(layers', heap', li) = LayerView(layers, heap, li)
          /\ (resolved # NoName /\ ~ last'.overwrite /\ resolved \in GlyphKeys(layers[li])) =>
                /\ last'.err = GlyphNameCollision
                /\ LayerView(layers', heap', li) = LayerView(layers, heap, li)

\* C4: every insertGlyph call without a name fails with UnnamedGlyph, and every
\* one onto a present name without overwrite fails with GlyphNameCollision,
\* the layer's glyphs unchanged
C4_InsertGlyphErrors == [][C4_InsertGlyphStep]_vars

\* A refused insertion into a layer that holds glyphs
C4_Witness ==
    /\ last.op = "insertGlyph" /\ last.err = GlyphNameCollision
    /\ ~ last.overwrite
    /\ Len(layers[last.li].glyphs) >= 1

\* C5: insertGlyph with copy=true leaves the source glyph as it was (name and
\* contents) and adds it to no layer; the glyph stored under the resolved name is
\* a new identity whose contents, contours included, equal the source's; an edit
\* made through one glyph changes no other glyph.
C5_InsertCopyStep ==
    LET li == last'.li
        g == last'.gid
        c == last'.ret
        resolved == ResolvedName(heap, g, last'.name)
    IN  /\ (last'.op = "insertGlyph" /\ last'.copy /\ last'.err = OK) =>
              /\ heap'[g] = heap[g]
              /\ c \notin DOMAIN heap
              /\ GlyphAt(layers'[li], resolved) = c
              /\ heap'[c].contours = heap[g].contours
              /\ heap'[c] = [heap[g] EXCEPT !.name = resolved]
              /\ \A l \in 1..Len(layers) :
                    g \in GlyphIds(layers'[l]) => g \in GlyphIds(layers[l])
        /\ last'.op = "appendContour" =>
              \A h \in DOMAIN heap : h # last'.gid => heap'[h] = heap[h]

\* C5: every insertGlyph call with copy=true stores a new glyph with the
\* source's contents and leaves the source as it was and outside the layer
C5_InsertCopyIndependent == [][C5_InsertCopyStep]_vars

\* A copy was inserted, then the source was edited: the two now differ
C5_Witness ==
    /\ last.op = "appendContour"
    /\ \E l \in 1..Len(layers) : \E i \in 1..Len(layers[l].glyphs) :
          LET c == layers[l].glyphs[i].gid
          IN  /\ c # last.gid
              /\ heap[c].contours # heap[last.gid].contours
              /\ heap[last.gid].name = NoName
              /\ last.gid \notin GlyphIds(layers[l])

\* C6: insertGlyph with copy=false stores the very glyph given under the resolved
\* name and sets that glyph's name to it; addGlyph(glyph) does what
\* insertGlyph(glyph, overwrite=false, copy=false) does, so adding a glyph whose
\* name is taken fails and the name keeps its first glyph.
C6_InsertMoveStep ==
    LET li == last'.li
        g == last'.gid
        resolved == ResolvedName(heap, g, last'.name)
        sugar == insert_glyph(layers, heap, li, g, NoName, FALSE, FALSE)
    IN  /\ (last'.op = "insertGlyph" /\ ~ last'.copy /\ last'.err = OK) =>
              /\ GlyphAt(layers'[li], resolved) = g
              /\ heap'[g].name = resolved
        /\ last'.op = "addGlyph" =>
              /\ last'.err = sugar.err /\ layers' = sugar.layers /\ heap' = sugar.heap
              /\ heap[g].name \in GlyphKeys(layers[li]) =>
                    /\ last'.err = GlyphNameCollision
                    /\ GlyphAt(layers'[li], heap[g].name) = GlyphAt(layers[li], heap[g].name)

\* C6: every insertGlyph call with copy=false stores the glyph given and names
\* it; every addGlyph call does what insertGlyph without overwrite and copy does
C6_InsertMoveAndAddGlyph == [][C6_InsertMoveStep]_vars

\* A second glyph of a taken name was refused by addGlyph
C6_Witness ==
    /\ last.op = "addGlyph" /\ last.err = GlyphNameCollision
    /\ GlyphAt(layers[last.li], heap[last.gid].name) \notin {0, last.gid}

\* C7 as stated: renameGlyph fails with GlyphNotFound whenever old is no glyph
\* name of the layer, whatever new and overwrite are; it fails with
\* GlyphNameCollision when new is another, present name and overwrite is false;
\* with old = new and old present the layer is unchanged.
C7_AsStatedStep ==
    LET li == last'.li
        old == last'.name
        new == last'.new
        keys == GlyphKeys(layers[li])
    IN  last'.op = "renameGlyph" =>
          /\ old \notin keys => last'.err = GlyphNotFound
          /\ (old \in keys /\ new # old /\ new \in keys /\ ~ last'.overwrite)
                => last'.err = GlyphNameCollision
          /\ (old = new /\ old \in keys)
                => LayerView(layers', heap', li) = LayerView(layers, heap, li)

\* C7 as stated, for every renameGlyph call
C7_AsStated == [][C7_AsStatedStep]_vars

\* C7, amended: renameGlyph fails with GlyphNotFound when old is no glyph name of
\* the layer and new differs from old; it fails with GlyphNameCollision when old
\* is present, new is another, present name and overwrite is false; with old =
\* new the call succeeds and leaves the layer unchanged, whether or not old is a
\* glyph name.
C7_AmendedStep ==
    LET li == last'.li
        old == last'.name
        new == last'.new
        keys == GlyphKeys(layers[li])
    IN  last'.op = "renameGlyph" =>
          /\ (old \notin keys /\ new # old) => last'.err = GlyphNotFound
          /\ (old \in keys /\ new # old /\ new \in keys /\ ~ last'.overwrite)
                => last'.err = GlyphNameCollision
          /\ old = new =>
                /\ last'.err = OK
                /\ LayerView(layers', heap', li) = LayerView(layers, heap, li)

\* C7, amended, for every renameGlyph call: GlyphNotFound when old is absent and
\* new differs from old; GlyphNameCollision when new is another present name
\* and overwrite is false; success without change when old = new
C7_RenameGlyphContract == [][C7_AmendedStep]_vars

\* renameGlyph(old, old) returned without error for a name the layer lacks
C7_Witness ==
    /\ last.op = "renameGlyph" /\ last.err = OK
    /\ last.name = last.new
    /\ last.name \notin GlyphKeys(layers[last.li])
    /\ Len(layers[last.li].glyphs) >= 1

----------------------------------------------------------------------------
(* The construction of a layer set, from its arguments to its outcome *)

\* The mappings given to LayerSet(layers=..., defaultLayer=...): distinct keys,
\* each with a Layer object of its own, whose name need not be the key
MappingInputs ==
    {m \in SeqsUpTo({[key |-> k, name |-> n] : k \in LayerNames, n \in LayerNames},
                    MaxMapping) :
        \A i, j \in 1..Len(m) : m[i].key = m[j].key => i = j}

DirectInputs ==
    {[call |-> "LayerSet", value |-> [i \in 1..Len(m) |->
                                [key |-> m[i].key, isLayer |-> TRUE, id |-> i,
                                 name |-> m[i].name]],
      dname |-> "", dlayer |-> d] : m \in MappingInputs, d \in 0..MaxMapping}

IterableInputs ==
    {[call |-> "from_iterable", value |-> v, dname |-> d, dlayer |-> 0] :
        v \in FromIterableInputs, d \in LayerNames}

InitConstruct ==
    /\ ctorIn \in DirectInputs \cup IterableInputs
    /\ ctorOut = NoCtor
    /\ layers = LayerSet_default
    /\ heap = <<>>
    /\ last = NoCall
    /\ ufo = NoUfo
    /\ twin = NoTwin

FromIterable ==
    /\ ctorOut = NoCtor
    /\ ctorIn.call = "from_iterable"
    /\ ctorOut' = LayerSet_from_iterable(ctorIn.value, ctorIn.dname)
    /\ UNCHANGED <<layers, heap, last, ctorIn, ufo, twin>>

Construct ==
    /\ ctorOut = NoCtor
    /\ ctorIn.call = "LayerSet"
    /\ ctorOut' = LayerSet___init__(ctorIn.value, ctorIn.dlayer)
    /\ UNCHANGED <<layers, heap, last, ctorIn, ufo, twin>>

NextConstruct == FromIterable \/ Construct

SpecConstruct == InitConstruct /\ [][NextConstruct]_vars

Constructed == ctorOut # NoCtor

\* The errors the entries of a construction call for: EmptyLayerSet when there
\* are none, TypeMismatch when one is no Layer, DuplicateLayerName when two
\* Layers of a list share a name, NoDefaultLayer when none is the designated
\* default layer (by name for from_iterable, by identity for LayerSet(...))
ErrorsCalledFor(call, value, dname, dlayer) ==
    {e \in {EmptyLayerSet, TypeMismatch, DuplicateLayerName, NoDefaultLayer} :
        \/ e = EmptyLayerSet /\ Len(value) = 0
        \/ e = TypeMismatch /\ \E i \in 1..Len(value) : ~ value[i].isLayer
        \/ e = DuplicateLayerName /\ call = "from_iterable"
             /\ \E i, j \in 1..Len(value) :
                   /\ i # j /\ value[i].isLayer /\ value[j].isLayer
                   /\ value[i].name = value[j].name
        \/ e = NoDefaultLayer
             /\ IF call = "from_iterable"
                THEN \A i \in 1..Len(value) :
                        ~ (value[i].isLayer /\ value[i].name = dname)
                ELSE \A i \in 1..Len(value) : value[i].id # dlayer}

\* C2: when the layers given to a construction (LayerSet.from_iterable(list) or
\* LayerSet(layers, defaultLayer)) are empty, hold an entry that is no Layer,
\* hold two Layers of one name, or hold no designated default layer, the
\* construction fails with the error of one of the conditions that hold and
\* produces no layer set; LayerSet(...) of no layers fails with EmptyLayerSet.
\* (from_iterable of an empty list reports the missing default layer.)
C2_ConstructionErrors ==
    Constructed =>
        LET called == ErrorsCalledFor(ctorIn.call, ctorIn.value, ctorIn.dname, ctorIn.dlayer)
        IN  /\ called # {} => ctorOut.err \in called /\ ctorOut.font = NoFont
            /\ called = {TypeMismatch} => ctorOut.err = TypeMismatch
            /\ called = {DuplicateLayerName} => ctorOut.err = DuplicateLayerName
            /\ called = {NoDefaultLayer} => ctorOut.err = NoDefaultLayer
            /\ (ctorIn.call = "LayerSet" /\ Len(ctorIn.value) = 0) =>
                  ctorOut.err = EmptyLayerSet

\* A list whose repeated name comes before an entry that is no Layer
C2_Witness ==
    /\ Constructed /\ ctorIn.call = "from_iterable"
    /\ ctorOut.err = DuplicateLayerName
    /\ \E i \in 1..Len(ctorIn.value) : ~ ctorIn.value[i].isLayer

\* C24: a construction of a LayerSet that fails leaves the mapping of layers
\* passed to it as it was before the call (an instance of: every editing call
\* that fails leaves the graph and its arguments exactly as before)
C24_FailedCallChangesNothing ==
    Constructed /\ ctorIn.call = "LayerSet" /\ ctorOut.err # OK
        => ctorOut.mapping = ctorIn.value

\* The construction was given one or more Layers of pairwise distinct names,
\* a mapping holding each under its name, one of them the designated default
\* layer
GivenDistinctLayers ==
    /\ Len(ctorIn.value) >= 1
    /\ \A i \in 1..Len(ctorIn.value) :
          ctorIn.value[i].isLayer /\ ctorIn.value[i].key = ctorIn.value[i].name
    /\ \A i, j \in 1..Len(ctorIn.value) :
          ctorIn.value[i].name = ctorIn.value[j].name => i = j
    /\ \E i \in 1..Len(ctorIn.value) :
          IF ctorIn.call = "from_iterable"
          THEN ctorIn.value[i].name = ctorIn.dname
          ELSE ctorIn.value[i].id = ctorIn.dlayer

\* The name of the designated default layer
Designated ==
    IF ctorIn.call = "from_iterable" THEN ctorIn.dname
    ELSE ctorIn.value[CHOOSE i \in 1..Len(ctorIn.value) :
                         ctorIn.value[i].id = ctorIn.dlayer].name

\* C29: a construction (from_iterable, or LayerSet of a mapping and its default
\* layer) from n >= 1 Layers of pairwise distinct names, one of them the
\* designated default layer, succeeds for every n and gives a layer set of
\* exactly those n layers whose default layer is the designated one and comes
\* first
C29_ConstructionSucceeds ==
    Constructed /\ GivenDistinctLayers =>
        /\ ctorOut.err = OK
        /\ Len(ctorOut.font) = Len(ctorIn.value)
        /\ LayerNamesOf(ctorOut.font) = {ctorIn.value[i].name : i \in 1..Len(ctorIn.value)}
        /\ ctorOut.font[default_layer(ctorOut.font)].name = Designated
        /\ ctorOut.font[1].name = Designated

----------------------------------------------------------------------------
(* The font: layers made and renamed, glyphs put into any layer, and the      *)
(* glyph operations of the Font itself                                        *)

FontLayerNames == {DEFAULT_LAYER_NAME, "abc"}

NextFont ==
    \/ \E n \in GlyphNames \cup {NoName} : NewGlyphObject(n)
    \/ \E n \in FontLayerNames : NewLayer(n)
    \/ \E old \in FontLayerNames, new \in FontLayerNames, ow \in BOOLEAN :
          RenameLayer(old, new, ow)
    \/ \E li \in LayerIds, g \in Glyphs : AddGlyph(li, g)
    \/ \E g \in Glyphs, n \in GlyphNames : FontSetItem(n, g)
    \/ \E n \in GlyphNames : FontDelItem(n)
    \/ \E g \in Glyphs : FontAddGlyph(g)
    \/ \E n \in GlyphNames : FontNewGlyph(n)
    \/ \E old \in GlyphNames, new \in GlyphNames, ow \in BOOLEAN :
          FontRenameGlyph(old, new, ow)

SpecFont == InitFont /\ [][NextFont]_vars

FontGlyphOps ==
    {"Font.__setitem__", "Font.__delitem__", "Font.addGlyph", "Font.newGlyph",
     "Font.renameGlyph"}

\* What the Font shows of its glyphs is what its default layer holds
C8_FontShowsDefaultLayer ==
    LET d == default_layer(layers)
    IN  /\ \A n \in GlyphNames :
              /\ Font___contains__(layers, n) <=> n \in GlyphKeys(layers[d])
              /\ Font___getitem__(layers, heap, n).ret = GlyphAt(layers[d], n)
              /\ Font___getitem__(layers, heap, n).err = OK <=> n \in GlyphKeys(layers[d])
        /\ Font___len__(layers) = Len(layers[d].glyphs)
        /\ Font_keys(layers) = [i \in 1..Len(layers[d].glyphs) |-> layers[d].glyphs[i].key]
        /\ Font___iter__(layers) = [i \in 1..Len(layers[d].glyphs) |-> layers[d].glyphs[i].gid]

\* A glyph operation of the Font changes no layer but the default one
C8_FontEditStep ==
    last'.op \in FontGlyphOps =>
        /\ Len(layers') = Len(layers)
        /\ \A i \in 1..Len(layers) : i # default_layer(layers) => layers'[i] = layers[i]
        /\ last'.err = OK /\ last'.op \in {"Font.__setitem__", "Font.addGlyph"} =>
                GlyphAt(layers'[default_layer(layers)],
                        ResolvedName(heap, last'.gid, last'.name)) = last'.gid
        /\ last'.err = OK /\ last'.op = "Font.__delitem__" =>
                last'.name \notin GlyphKeys(layers'[default_layer(layers)])

\* C8: the Font has no glyph table of its own: in every state the glyph names
\* seen through it (membership, lookup, length, iteration) are those of the
\* current default layer and lookup gives the same glyph; assigning or deleting
\* a glyph through the Font changes the default layer only, also after the
\* default layer was renamed.
C8_FontDelegates == [] C8_FontShowsDefaultLayer /\ [][C8_FontEditStep]_vars

\* A glyph assigned through the Font after the default layer was renamed and a
\* new layer took the name public.default, which holds a glyph of its own
C8_Witness ==
    /\ last.op = "Font.__setitem__" /\ last.err = OK
    /\ layers[default_layer(layers)].name # DEFAULT_LAYER_NAME
    /\ \E i \in 1..Len(layers) :
          /\ layers[i].name = DEFAULT_LAYER_NAME
          /\ Len(layers[i].glyphs) >= 1
          /\ GlyphKeys(layers[i]) # GlyphKeys(layers[default_layer(layers)])

----------------------------------------------------------------------------
(* Bounds and margins: a layer of glyphs with outlines and components, queried *)
(* for bounds and margins, with and without the layer                         *)

\* The rectangle of the margin tests, and a closed contour with one quadratic
\* curve whose control point lies outside the curve
Rect == <<Pt(8, 0, "line"), Pt(18, 0, "line"), Pt(18, 20, "line"), Pt(8, 20, "line")>>

Bump == <<Pt(0, 0, "line"), Pt(16, 32, "offcurve"), Pt(32, 0, "qcurve")>>

\* A translation, a shear and a mirroring with scaling
Transformations == {Translate(-50, 100), <<1, 0, 1, 1, 0, 0>>, <<-2, 0, 0, 1, 3, 0>>}

\* "c" names no glyph of the layer
MissingName == "c"

\* Glyph(name) with width 30 and height 40, drawn into and given components;
\* its vertical origin is 35 when set
Shape(name, contours, components, vo) ==
    [NewGlyphRec(name) EXCEPT !.width = 30, !.height = 40, !.voSet = vo,
                              !.verticalOrigin = IF vo THEN 35 ELSE 0,
                              !.contours = contours, !.components = components]

\* "a", with a vertical origin: empty or the curve, alone or with a component
\* of "b", of itself or of a glyph that is missing
ShapesOfA ==
    {Shape("a", o, c, TRUE) :
        o \in {<<>>, <<Bump>>},
        c \in {<<>>, <<Component("a", Translate(-50, 100))>>,
               <<Component(MissingName, Translate(-50, 100))>>}
              \cup {<<Component("b", t)>> : t \in Transformations}}

\* "b": empty or the rectangle, alone or with a component of "a"
ShapesOfB ==
    {Shape("b", o, c, FALSE) :
        o \in {<<>>, <<Rect>>},
        c \in {<<>>, <<Component("a", <<1, 0, 1, 1, 0, 0>>)>>}}

\* "d": no outline of its own; nothing, or a component of "a" or of a glyph
\* that is missing
ShapesOfD ==
    {Shape("d", <<>>, c, FALSE) :
        c \in {<<>>, <<Component(MissingName, <<1, 0, 1, 1, 0, 0>>)>>}
              \cup {<<Component("a", t)>> : t \in Transformations}}

\* The layer holds the glyphs "a" and "b"; the glyph "d" is in no layer
InitBounds ==
    /\ \E a \in ShapesOfA, b \in ShapesOfB, d \in ShapesOfD : heap = <<a, b, d>>
    /\ layers = <<[name |-> DEFAULT_LAYER_NAME,
                   glyphs |-> <<[key |-> "a", gid |-> 1], [key |-> "b", gid |-> 2]>>]>>
    /\ last = NoCall
    /\ ufo = NoUfo
    /\ twin = NoTwin
    /\ ctorIn = NoCtor
    /\ ctorOut = NoCtor

GlyphQuery(op, ls, hp, li, g, layer) ==
    CASE op = "Glyph.getBounds" -> Glyph_getBounds(ls, hp, li, g, layer)
      [] op = "Glyph.getControlBounds" -> Glyph_getControlBounds(ls, hp, li, g, layer)
      [] op = "Glyph.getLeftMargin" -> Glyph_getLeftMargin(ls, hp, li, g, layer)
      [] op = "Glyph.getRightMargin" -> Glyph_getRightMargin(ls, hp, li, g, layer)
      [] op = "Glyph.getBottomMargin" -> Glyph_getBottomMargin(ls, hp, li, g, layer)
      [] op = "Glyph.getTopMargin" -> Glyph_getTopMargin(ls, hp, li, g, layer)

BoundsQueries == {"Glyph.getBounds", "Glyph.getControlBounds"}

MarginGetters ==
    {"Glyph.getLeftMargin", "Glyph.getRightMargin", "Glyph.getBottomMargin",
     "Glyph.getTopMargin"}

ComponentQueries == {"Component.getBounds", "Component.getControlBounds"}

\* glyph.getBounds(layer), glyph.getLeftMargin(layer), ...: layer says whether
\* the layer is passed
QueryGlyph(op, g, layer) ==
    LET q == GlyphQuery(op, layers, heap, 1, g, layer)
    IN  /\ last' = [Call(op, q.err) EXCEPT !.li = 1, !.gid = g, !.layer = layer, !.q = q]
        /\ UNCHANGED <<layers, heap, ctorIn, ctorOut, ufo, twin>>

\* glyph.components[k].getBounds(layer) and getControlBounds(layer)
QueryComponent(op, g, k, layer) ==
    LET component == heap[g].components[k]
        q == IF op = "Component.getBounds"
             THEN Component_getBounds(layers, heap, 1, component, layer)
             ELSE Component_getControlBounds(layers, heap, 1, component, layer)
    IN  /\ last' = [Call(op, q.err) EXCEPT !.li = 1, !.gid = g, !.layer = layer,
                                           !.component = component, !.q = q]
        /\ UNCHANGED <<layers, heap, ctorIn, ctorOut, ufo, twin>>

LayerQueries ==
    {"Layer.bounds", "Layer.controlPointBounds", "Font.bounds", "Font.controlPointBounds"}

LayerQuery(op, ls, hp, li) ==
    CASE op = "Layer.bounds" -> Layer_bounds(ls, hp, li)
      [] op = "Layer.controlPointBounds" -> Layer_controlPointBounds(ls, hp, li)
      [] op = "Font.bounds" -> Font_bounds(ls, hp)
      [] op = "Font.controlPointBounds" -> Font_controlPointBounds(ls, hp)

\* layer.bounds, layer.controlPointBounds, font.bounds, font.controlPointBounds
QueryLayer(op) ==
    LET q == LayerQuery(op, layers, heap, 1)
    IN  /\ last' = [Call(op, q.err) EXCEPT !.li = 1, !.q = q]
        /\ UNCHANGED <<layers, heap, ctorIn, ctorOut, ufo, twin>>

NextBounds ==
    \/ \E op \in BoundsQueries \cup MarginGetters, g \in Glyphs, layer \in BOOLEAN :
          QueryGlyph(op, g, layer)
    \/ \E op \in LayerQueries : QueryLayer(op)
    \/ \E op \in ComponentQueries, g \in Glyphs, layer \in BOOLEAN :
          \E k \in 1..Len(heap[g].components) : QueryComponent(op, g, k, layer)

SpecBounds == InitBounds /\ [][NextBounds]_vars

IsEmpty(glyph) == Len(glyph.contours) = 0 /\ Len(glyph.components) = 0

\* C9: a bounds query (tight or control-point) or a margin getter on a glyph
\* with no contours and no components raises nothing and gives None, not a box
\* and not a number, whether or not the layer is passed.
C9_EmptyHasNoBounds ==
    /\ last.op \in BoundsQueries \cup MarginGetters
    /\ IsEmpty(heap[last.gid])
    => /\ last.q.err = OK
       /\ ~ last.q.some
       /\ last.q.box = NoBounds

\* The top margin of an empty glyph was asked for with the layer, while the
\* other glyph of the layer has an outline
C9_Witness ==
    /\ last.op = "Glyph.getTopMargin" /\ last.layer
    /\ IsEmpty(heap[last.gid])
    /\ ~ last.q.some
    /\ \E g \in Glyphs : Len(heap[g].contours) > 0

\* The base glyph names of the components of a glyph
ComponentBases(glyph) == {glyph.components[k].baseGlyph : k \in 1..Len(glyph.components)}

\* The names reached from the names N through the components of the glyphs of
\* the layer, in at most k steps
RECURSIVE ReachedFrom(_, _, _, _, _)
ReachedFrom(ls, hp, li, N, k) ==
    IF k = 0 THEN N
    ELSE ReachedFrom(ls, hp, li,
            N \cup UNION {ComponentBases(hp[GlyphAt(ls[li], n)]) :
                            n \in {m \in N : GlyphAt(ls[li], m) # 0}},
            k - 1)

Referenced(ls, hp, li, N) == ReachedFrom(ls, hp, li, N, Len(ls[li].glyphs) + 1)

\* No glyph among the names N refers back to itself
Acyclic(ls, hp, li, N) ==
    \A n \in N : GlyphAt(ls[li], n) # 0 =>
        n \notin Referenced(ls, hp, li, ComponentBases(hp[GlyphAt(ls[li], n)]))

\* The box that holds the four corners of a box mapped through a transform
MappedBounds(t, b) ==
    IF ~ b.some THEN NoBounds
    ELSE updateBounds(updateBounds(updateBounds(updateBounds(NoBounds,
            TransformPoint(t, b.xMin, b.yMin).x, TransformPoint(t, b.xMin, b.yMin).y),
            TransformPoint(t, b.xMin, b.yMax).x, TransformPoint(t, b.xMin, b.yMax).y),
            TransformPoint(t, b.xMax, b.yMin).x, TransformPoint(t, b.xMax, b.yMin).y),
            TransformPoint(t, b.xMax, b.yMax).x, TransformPoint(t, b.xMax, b.yMax).y)

Within(inner, outer) ==
    /\ outer.xMin <= inner.xMin /\ inner.xMax <= outer.xMax
    /\ outer.yMin <= inner.yMin /\ inner.yMax <= outer.yMax

\* The transform has no rotation and no shear part
AxisAligned(t) == t[2] = 0 /\ t[3] = 0

\* The last call was a bounds or margin query on a component, or on a glyph
\* that has a component
OnComponents ==
    \/ last.op \in ComponentQueries
    \/ last.op \in BoundsQueries \cup MarginGetters /\ Len(heap[last.gid].components) > 0

\* The names the queried component or glyph refers to, directly or through the
\* components of the glyphs it refers to
QueriedNames ==
    Referenced(layers, heap, last.li,
               IF last.op \in ComponentQueries THEN {last.component.baseGlyph}
               ELSE ComponentBases(heap[last.gid]))

C10_LayerRequired == OnComponents /\ ~ last.layer => last.q.err = LayerRequired

C10_MissingGlyph ==
    /\ OnComponents /\ last.layer
    /\ Acyclic(layers, heap, last.li, QueriedNames)
    /\ \E n \in QueriedNames : GlyphAt(layers[last.li], n) = 0
    => /\ last.q.err = MissingGlyph
       /\ last.q.name \in QueriedNames
       /\ GlyphAt(layers[last.li], last.q.name) = 0

\* The control-point bounds of the base glyph of the queried component
BaseControlBounds ==
    Glyph_getControlBounds(layers, heap, last.li,
                           GlyphAt(layers[last.li], last.component.baseGlyph), TRUE)

\* The control-point bounds of a component were asked for with the layer, and
\* those of its base glyph can be computed
ComponentResolved ==
    /\ last.op = "Component.getControlBounds" /\ last.layer
    /\ GlyphAt(layers[last.li], last.component.baseGlyph) # 0
    /\ BaseControlBounds.err = OK

OnCyclicGlyph ==
    /\ last.op \in BoundsQueries \cup MarginGetters
    /\ last.layer
    /\ \E n \in GlyphKeys(layers[last.li]) :
          /\ GlyphAt(layers[last.li], n) = last.gid
          /\ n \in Referenced(layers, heap, last.li, ComponentBases(heap[last.gid]))

\* C11: a bounds or margin query, with the layer, on a glyph that refers back
\* to itself through a chain of components (a component of itself included)
\* fails with CyclicComponentReference.
C11_CycleDetected == OnCyclicGlyph => last.q.err = "CyclicComponentReference"

\* The last call was a margin getter that found bounds
MarginFound ==
    /\ last.op \in MarginGetters
    /\ Glyph_getBounds(layers, heap, last.li, last.gid, last.layer).err = OK
    /\ Glyph_getBounds(layers, heap, last.li, last.gid, last.layer).some

\* C12: for a glyph with bounds (xMin, yMin, xMax, yMax), getLeftMargin gives
\* xMin and getRightMargin gives width - xMax; getTopMargin gives
\* verticalOrigin - yMax and getBottomMargin gives yMin - (verticalOrigin -
\* height) when the vertical origin is set, height - yMax and yMin when not.
C12_MarginGetters ==
    MarginFound =>
        LET glyph == heap[last.gid]
            box == Glyph_getBounds(layers, heap, last.li, last.gid, last.layer).box
        IN  /\ last.q.err = OK /\ last.q.some
            /\ last.op = "Glyph.getLeftMargin" => last.q.val = box.xMin
            /\ last.op = "Glyph.getRightMargin" => last.q.val = glyph.width - box.xMax
            /\ last.op = "Glyph.getTopMargin" =>
                  last.q.val = IF glyph.voSet THEN glyph.verticalOrigin - box.yMax
                               ELSE glyph.height - box.yMax
            /\ last.op = "Glyph.getBottomMargin" =>
                  last.q.val = IF glyph.voSet
                               THEN box.yMin - (glyph.verticalOrigin - glyph.height)
                               ELSE box.yMin

\* The bottom margin of a glyph with a vertical origin other than its height,
\* whose bounds come through a component
C12_Witness ==
    /\ MarginFound
    /\ last.op = "Glyph.getBottomMargin"
    /\ heap[last.gid].voSet
    /\ heap[last.gid].verticalOrigin # heap[last.gid].height
    /\ Len(heap[last.gid].components) > 0
    /\ last.q.val # Glyph_getBounds(layers, heap, last.li, last.gid, last.layer).box.yMin

\* What the glyphs of the layer give to the query a layer query is made of
GlyphBoundsOf(op, g) ==
    IF op \in {"Layer.bounds", "Font.bounds"}
    THEN Glyph_getBounds(layers, heap, 1, g, TRUE)
    ELSE Glyph_getControlBounds(layers, heap, 1, g, TRUE)

\* The boxes of the glyphs of the layer that have one
BoxesOf(op) ==
    {GlyphBoundsOf(op, g).box : g \in {h \in GlyphIds(layers[1]) : GlyphBoundsOf(op, h).some}}

\* The layer with its glyphs in the opposite order
Reversed(ls) ==
    [ls EXCEPT ![1].glyphs = [i \in 1..Len(@) |-> @[Len(@) + 1 - i]]]

C30_FoldStep ==
    /\ last'.op \in LayerQueries
    /\ \A g \in GlyphIds(layers[1]) : GlyphBoundsOf(last'.op, g).err = OK
    => /\ last'.err = OK
       /\ last'.q.some <=> BoxesOf(last'.op) # {}
       /\ last'.q.some =>
             /\ \E b \in BoxesOf(last'.op) : b.xMin = last'.q.box.xMin
             /\ \A b \in BoxesOf(last'.op) : last'.q.box.xMin <= b.xMin
             /\ \E b \in BoxesOf(last'.op) : b.yMin = last'.q.box.yMin
             /\ \A b \in BoxesOf(last'.op) : last'.q.box.yMin <= b.yMin
             /\ \E b \in BoxesOf(last'.op) : b.xMax = last'.q.box.xMax
             /\ \A b \in BoxesOf(last'.op) : last'.q.box.xMax >= b.xMax
             /\ \E b \in BoxesOf(last'.op) : b.yMax = last'.q.box.yMax
             /\ \A b \in BoxesOf(last'.op) : last'.q.box.yMax >= b.yMax
       /\ last'.q = LayerQuery(last'.op, Reversed(layers), heap, 1)

\* C30: Layer.bounds and Layer.controlPointBounds (and those of the Font, on its
\* default layer) are the fold of unionBounds over the bounds of the glyphs of
\* the layer, components looked up in that layer: None when no glyph has
\* bounds, otherwise the least of the minima and the greatest of the maxima of
\* the boxes of the glyphs, an absent box leaving the other as it is; the order
\* of the glyphs makes no difference
C30_LayerBoundsFold == [][C30_FoldStep]_vars

\* The bounds of a layer whose two glyphs both have bounds, and that are
\* those of neither glyph
C30_Witness ==
    /\ last.op \in LayerQueries /\ last.err = OK /\ last.q.some
    /\ \A g \in GlyphIds(layers[1]) :
          /\ GlyphBoundsOf(last.op, g).err = OK
          /\ GlyphBoundsOf(last.op, g).some
          /\ GlyphBoundsOf(last.op, g).box # last.q.box

----------------------------------------------------------------------------
(* Margins set: the layer of the margin tests, its glyphs' margins set one    *)
(* call after the other                                                       *)

MaxSetterCalls == 2     \* margin setter calls in one run

\* The margins asked for, next to the margin a glyph has
MarginValues == {10, 12}

\* "a": the rectangle and an anchor, or nothing, at width 30
MarginShapesOfA ==
    {[Shape("a", o, <<>>, vo) EXCEPT !.anchors = <<Anchor(10, 30)>>] :
        o \in {<<Rect>>, <<>>}, vo \in BOOLEAN}

\* "b": a component of "a" moved by (2, -5), alone or next to a contour
MarginShapesOfB ==
    {Shape("b", o, <<Component("a", Translate(2, -5))>>, vo) :
        o \in {<<>>, <<Bump>>}, vo \in BOOLEAN}

InitMargins ==
    /\ \E a \in MarginShapesOfA, b \in MarginShapesOfB : heap = <<a, b>>
    /\ layers = <<[name |-> DEFAULT_LAYER_NAME,
                   glyphs |-> <<[key |-> "a", gid |-> 1], [key |-> "b", gid |-> 2]>>]>>
    /\ last = NoCall
    /\ ufo = NoUfo
    /\ twin = NoTwin
    /\ ctorIn = NoCtor
    /\ ctorOut = NoCtor

Setters ==
    {"Glyph.setLeftMargin", "Glyph.setRightMargin", "Glyph.setBottomMargin",
     "Glyph.setTopMargin"}

GlyphSetter(op, ls, hp, li, g, value, layer) ==
    CASE op = "Glyph.setLeftMargin" -> Glyph_setLeftMargin(ls, hp, li, g, value, layer)
      [] op = "Glyph.setRightMargin" -> Glyph_setRightMargin(ls, hp, li, g, value, layer)
      [] op = "Glyph.setBottomMargin" -> Glyph_setBottomMargin(ls, hp, li, g, value, layer)
      [] op = "Glyph.setTopMargin" -> Glyph_setTopMargin(ls, hp, li, g, value, layer)

\* The getter of the margin a setter sets
GetterOf(op) ==
    CASE op = "Glyph.setLeftMargin" -> "Glyph.getLeftMargin"
      [] op = "Glyph.setRightMargin" -> "Glyph.getRightMargin"
      [] op = "Glyph.setBottomMargin" -> "Glyph.getBottomMargin"
      [] op = "Glyph.setTopMargin" -> "Glyph.getTopMargin"

\* The getter of the margin on the other side
OppositeOf(op) ==
    CASE op = "Glyph.setLeftMargin" -> "Glyph.getRightMargin"
      [] op = "Glyph.setRightMargin" -> "Glyph.getLeftMargin"
      [] op = "Glyph.setBottomMargin" -> "Glyph.getTopMargin"
      [] op = "Glyph.setTopMargin" -> "Glyph.getBottomMargin"

\* The margin the glyph has now, when it has one
CurrentMargin(op, g, layer) ==
    LET q == GlyphQuery(GetterOf(op), layers, heap, 1, g, layer)
    IN  IF q.err = OK /\ q.some THEN {q.val} ELSE {}

\* glyph.setLeftMargin(value, layer), ...
SetMargin(op, g, value, layer) ==
    /\ last.calls < MaxSetterCalls
    /\ LET r == GlyphSetter(op, layers, heap, 1, g, value, layer)
       IN  /\ heap' = r.hp
           /\ last' = [Call(op, r.err) EXCEPT !.li = 1, !.gid = g, !.layer = layer,
                                              !.value = value, !.calls = last.calls + 1]
    /\ UNCHANGED <<layers, ctorIn, ctorOut, ufo, twin>>

NextMargins ==
    \E op \in Setters, g \in Glyphs, layer \in BOOLEAN :
        \E value \in MarginValues \cup CurrentMargin(op, g, layer) :
            SetMargin(op, g, value, layer)

SpecMargins == InitMargins /\ [][NextMargins]_vars

\* The step is a margin setter call that found bounds and raised nothing
MarginSet ==
    /\ last'.op \in Setters
    /\ last'.err = OK
    /\ Glyph_getBounds(layers, heap, last'.li, last'.gid, last'.layer).some

\* What a getter gives for the glyph and the layer argument of the step's
\* setter call, before and after the call
Before(getter) == GlyphQuery(getter, layers, heap, last'.li, last'.gid, last'.layer)

After(getter) == GlyphQuery(getter, layers', heap', last'.li, last'.gid, last'.layer)

\* C13: a margin setter called with the value its getter gives changes nothing
\* of the glyph: not the width, the height, the vertical origin or whether it
\* is set, and no contour point, anchor or component.
C13_SameValueStep ==
    MarginSet /\ last'.value = Before(GetterOf(last'.op)).val
        => heap'[last'.gid] = heap[last'.gid]

C13_SameValueChangesNothing == [][C13_SameValueStep]_vars

\* C14: right after a margin setter call with the value v, on a glyph with
\* bounds (composite ones with their layer), the getter of that margin gives v,
\* whether or not the vertical origin was set.
C14_GetAfterSetStep ==
    MarginSet =>
        /\ After(GetterOf(last'.op)).err = OK
        /\ After(GetterOf(last'.op)).some
        /\ After(GetterOf(last'.op)).val = last'.value

C14_GetAfterSet == [][C14_GetAfterSetStep]_vars

\* The left margin of the composite glyph was set to another value, after the
\* top margin of a glyph without a vertical origin was
C14_Witness ==
    /\ last.op = "Glyph.setLeftMargin" /\ last.err = OK /\ last.calls = 2
    /\ Len(heap[last.gid].contours) = 0 /\ Len(heap[last.gid].components) > 0
    /\ heap[last.gid].width # 30
    /\ Glyph_getLeftMargin(layers, heap, last.li, last.gid, TRUE).val = last.value
    /\ \E g \in Glyphs : heap[g].voSet /\ heap[g].verticalOrigin # 35

\* C15: a margin setter call leaves the margin on the other side as it was:
\* setLeftMargin the right one, setRightMargin the left one, setTopMargin the
\* bottom one and setBottomMargin the top one, whether or not the vertical
\* origin was set.
C15_OppositeKeptStep ==
    MarginSet => After(OppositeOf(last'.op)) = Before(OppositeOf(last'.op))

C15_OppositeKept == [][C15_OppositeKeptStep]_vars

\* The top margin of a glyph without a vertical origin was set to another value
C15_Witness ==
    /\ last.op = "Glyph.setTopMargin" /\ last.err = OK
    /\ heap[last.gid].voSet
    /\ heap[last.gid].verticalOrigin = heap[last.gid].height
    /\ heap[last.gid].height # 40
    /\ Glyph_getBounds(layers, heap, last.li, last.gid, last.layer).some

\* Every contour point, anchor and component of the glyph is where it was
\* in before, moved by (dx, dy), and nothing else of them differs
ShiftedBy(glyph, before, dx, dy) ==
    /\ Len(glyph.contours) = Len(before.contours)
    /\ \A i \in 1..Len(before.contours) :
          /\ Len(glyph.contours[i]) = Len(before.contours[i])
          /\ \A j \in 1..Len(before.contours[i]) :
                glyph.contours[i][j] =
                    Pt(before.contours[i][j].x + dx, before.contours[i][j].y + dy,
                       before.contours[i][j].type)
    /\ Len(glyph.anchors) = Len(before.anchors)
    /\ \A i \in 1..Len(before.anchors) :
          glyph.anchors[i] = Anchor(before.anchors[i].x + dx, before.anchors[i].y + dy)
    /\ Len(glyph.components) = Len(before.components)
    /\ \A i \in 1..Len(before.components) :
          LET t == before.components[i].transformation
          IN  glyph.components[i] =
                Component(before.components[i].baseGlyph,
                          <<t[1], t[2], t[3], t[4], t[5] + dx, t[6] + dy>>)

\* The difference between the margin asked for and the margin the glyph has
Delta == last'.value - Before(GetterOf(last'.op)).val

\* C16 as stated: setLeftMargin and setBottomMargin move every contour point,
\* anchor and component of a glyph with contours by the difference, and move
\* nothing of a glyph that has components and no contours
C16_AsStatedStep ==
    MarginSet /\ last'.op \in {"Glyph.setLeftMargin", "Glyph.setBottomMargin"} =>
        LET before == heap[last'.gid]
            glyph == heap'[last'.gid]
        IN  IF Len(before.contours) > 0
            THEN IF last'.op = "Glyph.setLeftMargin"
                 THEN ShiftedBy(glyph, before, Delta, 0)
                 ELSE ShiftedBy(glyph, before, 0, Delta)
            ELSE ShiftedBy(glyph, before, 0, 0)

C16_AsStated == [][C16_AsStatedStep]_vars

\* C16, amended: setLeftMargin moves every contour point, anchor and component
\* of the glyph by the difference between the value and the left margin, on a
\* glyph that has only components as on one with contours; setRightMargin,
\* setTopMargin and setBottomMargin move nothing.
C16_ShiftStep ==
    MarginSet =>
        IF last'.op = "Glyph.setLeftMargin"
        THEN ShiftedBy(heap'[last'.gid], heap[last'.gid], Delta, 0)
        ELSE ShiftedBy(heap'[last'.gid], heap[last'.gid], 0, 0)

C16_OnlyLeftMarginShifts == [][C16_ShiftStep]_vars

\* The left margin of the glyph that has only a component was set to another
\* value, and its component moved
C16_Witness ==
    /\ last.op = "Glyph.setLeftMargin" /\ last.err = OK
    /\ Len(heap[last.gid].contours) = 0 /\ Len(heap[last.gid].components) = 1
    /\ heap[last.gid].components[1].transformation[5] # 2
    /\ last.calls = 1

\* The glyph is the rectangle from x = 8 to x = 18 with its anchor, moved by dx
RectGlyphAt(glyph, dx) ==
    /\ glyph.contours = <<ShiftPoints(Rect, dx, 0)>>
    /\ glyph.anchors = <<Anchor(10 + dx, 30)>>
    /\ glyph.components = <<>>

\* setLeftMargin(10) on the rectangle glyph at width 30 moves the points and the
\* anchor by +2 and gives the left margin 10 at width 32; setRightMargin(10) on
\* the glyph so left changes the width to the given one and nothing else
Scenario(width) ==
    /\ ( /\ last'.op = "Glyph.setLeftMargin" /\ last'.value = 10
         /\ RectGlyphAt(heap[last'.gid], 0) /\ heap[last'.gid].width = 30 )
       => /\ Before("Glyph.getLeftMargin").val = 8
          /\ Before("Glyph.getRightMargin").val = 12
          /\ last'.err = OK
          /\ RectGlyphAt(heap'[last'.gid], 2)
          /\ heap'[last'.gid].width = 32
          /\ After("Glyph.getLeftMargin").val = 10
    /\ ( /\ last'.op = "Glyph.setRightMargin" /\ last'.value = 10
         /\ RectGlyphAt(heap[last'.gid], 2) /\ heap[last'.gid].width = 32 )
       => /\ last'.err = OK
          /\ heap'[last'.gid] = [heap[last'.gid] EXCEPT !.width = width]
          /\ After("Glyph.getLeftMargin").val = 10
          /\ After("Glyph.getRightMargin").val = 10

\* C17 as stated: the setRightMargin(10) that follows setLeftMargin(10) changes
\* the width to 28
C17_AsStated == [][Scenario(28)]_vars

\* C17, amended: on the glyph with bounds from x = 8 to x = 18 at width 30 (left
\* margin 8, right margin 12), setLeftMargin(10) moves all points and anchors
\* by +2 and gives the left margin 10 and the width 32; a following
\* setRightMargin(10) changes only the width, to 30 (the moved xMax 20 plus
\* 10), moves no point, and leaves the left margin at 10.
C17_LeftThenRight == [][Scenario(30)]_vars

\* setRightMargin(10) was the second call, after setLeftMargin(10)
C17_Witness ==
    /\ last.op = "Glyph.setRightMargin" /\ last.value = 10 /\ last.calls = 2
    /\ RectGlyphAt(heap[last.gid], 2)
    /\ heap[last.gid].width = 30

\* The step is a setTopMargin or setBottomMargin call that found bounds, on a
\* glyph whose vertical origin was not set
OriginUnsetStep ==
    /\ MarginSet
    /\ last'.op \in {"Glyph.setTopMargin", "Glyph.setBottomMargin"}
    /\ ~ heap[last'.gid].voSet

\* The vertical origin is set at the height the glyph had, and then the
\* difference is added: to the height by setBottomMargin, to the vertical
\* origin and the height by setTopMargin
OriginEstablished ==
    LET before == heap[last'.gid]
        glyph == heap'[last'.gid]
    IN  /\ glyph.voSet
        /\ glyph.height = before.height + Delta
        /\ glyph.verticalOrigin = IF last'.op = "Glyph.setBottomMargin"
                                  THEN before.height
                                  ELSE before.height + Delta

\* Once set, the vertical origin of a glyph stays set
OriginKept == \A g \in Glyphs : heap[g].voSet => heap'[g].voSet

\* C18 as stated: every setTopMargin and setBottomMargin call on a glyph with
\* bounds and no vertical origin sets the vertical origin
C18_AsStated == [][(OriginUnsetStep => OriginEstablished) /\ OriginKept]_vars

\* C18, amended: a setTopMargin or setBottomMargin call with a value other than
\* the margin the glyph has, on a glyph with bounds whose vertical origin is
\* unset, sets the vertical origin at the height as of the call and then adds
\* the difference (setBottomMargin to the height, setTopMargin to the vertical
\* origin and the height); once set, no margin setter unsets it.
C18_OriginMaterializes ==
    [][(OriginUnsetStep /\ Delta # 0 => OriginEstablished) /\ OriginKept]_vars

\* After the top margin of a glyph without a vertical origin was set to
\* another value, another margin of that glyph was set
C18_Witness ==
    /\ last.calls = 2 /\ last.op \in Setters /\ last.err = OK
    /\ heap[last.gid].voSet
    /\ heap[last.gid].verticalOrigin = heap[last.gid].height
    /\ heap[last.gid].verticalOrigin \notin {35, 40}

\* The glyph c has a component whose base glyph is the glyph g
References(hp, c, g) ==
    \E k \in 1..Len(hp[c].components) : hp[c].components[k].baseGlyph = hp[g].name

\* The outline of c is made of nothing but components of g placed by a
\* translation
OnlyTranslated(hp, c, g) ==
    /\ hp[c].contours = <<>>
    /\ Len(hp[c].components) > 0
    /\ \A k \in 1..Len(hp[c].components) :
          /\ hp[c].components[k].baseGlyph = hp[g].name
          /\ LET t == hp[c].components[k].transformation
             IN  t = Translate(t[5], t[6])

\* What can be seen of a glyph: its fields, and its bounds and margins in the layer
Observed(ls, hp, c) ==
    [glyph |-> hp[c],
     queries |-> [q \in MarginGetters \cup BoundsQueries |->
                    GlyphQuery(q, ls, hp, 1, c, TRUE)]]

LeftMargin(ls, hp, c, layer) == Glyph_getLeftMargin(ls, hp, 1, c, layer)

\* A margin setter call and the glyphs around the glyph it was called on; with
\* translatedOnly, the composites looked at after setLeftMargin are those made
\* of translated components of the glyph alone
LocalStep(translatedOnly) ==
    MarginSet =>
       LET g == last'.gid
       IN  /\ last'.op = "Glyph.setLeftMargin" =>
                 \A c \in Glyphs \ {g} :
                    /\ References(heap, c, g)
                    /\ translatedOnly => OnlyTranslated(heap, c, g)
                    /\ LeftMargin(layers, heap, c, TRUE).some
                    => /\ LeftMargin(layers', heap', c, TRUE).some
                       /\ LeftMargin(layers', heap', c, TRUE).val
                             - LeftMargin(layers, heap, c, TRUE).val
                          = LeftMargin(layers', heap', g, last'.layer).val
                               - LeftMargin(layers, heap, g, last'.layer).val
                       /\ heap'[c].width = heap[c].width
           /\ last'.op = "Glyph.setRightMargin" =>
                 \A c \in Glyphs \ {g} :
                    References(heap, c, g) =>
                       Observed(layers', heap', c) = Observed(layers, heap, c)
           /\ last'.op \in {"Glyph.setLeftMargin", "Glyph.setRightMargin"} /\ last'.layer =>
                 \A a \in Glyphs \ {g} :
                    References(heap, g, a) =>
                       Observed(layers', heap', a) = Observed(layers, heap, a)

----------------------------------------------------------------------------
(* The object library in use: a font and a glyph of it hold up to MaxObjects
   library-bearing objects; their libraries are asked for and written, the
   objects are edited, the font is saved and opened again *)

ObjectOrder ==
    <<"font.info.guidelines[1]", "glyph.guidelines[1]", "glyph.anchors[1]",
      "glyph.contours[0]", "glyph.contours[1].points[0]", "glyph.components[0]">>

\* The objects of a document: up to MaxObjects objects that follow one another
\* in ObjectOrder, the first taken to follow the last, so that every kind
\* occurs, alone, with an object of the same owner and with one of the other
ObjectSets ==
    {{ObjectOrder[((first + k) % Len(ObjectOrder)) + 1] : k \in 0..(n - 1)} :
        first \in 0..(Len(ObjectOrder) - 1), n \in 1..MaxObjects}

InitObjectLib ==
    /\ \E objects \in ObjectSets : ufo = NewUfo(objects)
    /\ twin = NoTwin
    /\ layers = LayerSet_default
    /\ heap = <<>>
    /\ last = [NoCall EXCEPT !.op = "Font"]
    /\ ctorIn = NoCtor
    /\ ctorOut = NoCtor

ObjectLibCalls == {"Font.objectLib", "Glyph.objectLib"}

\* font.objectLib(obj) / glyph.objectLib(obj); the caller keeps the bag
ObjectLib(obj) ==
    /\ obj \in ufo.objects
    /\ LET fresh == make_identifier(ufo)
           got == IF OwnerOf(obj) = "font" THEN Font_objectLib(ufo, obj, fresh)
                  ELSE Glyph_objectLib(ufo, obj, fresh)
       IN  /\ ufo' = [got.ufo EXCEPT !.held = @ \cup {[obj |-> obj, bag |-> got.bag]}]
           /\ last' = [Call(IF OwnerOf(obj) = "font" THEN "Font.objectLib"
                            ELSE "Glyph.objectLib", OK)
                         EXCEPT !.name = obj, !.ret = got.bag]
    /\ UNCHANGED <<layers, heap, ctorIn, ctorOut, twin>>

\* lib[key] = value, on a bag the caller keeps
LibSetItem(h, key, value) ==
    /\ h \in ufo.held
    /\ ufo' = [ufo EXCEPT !.bags[h.bag] = Bag___setitem__(@, key, value)]
    /\ last' = Call("lib.__setitem__", OK)
    /\ UNCHANGED <<layers, heap, ctorIn, ctorOut, twin>>

\* del lib[key]
LibDelItem(h, key) ==
    /\ h \in ufo.held
    /\ IF key \in DOMAIN ufo.bags[h.bag]
       THEN /\ ufo' = [ufo EXCEPT !.bags[h.bag] = Bag___delitem__(@, key)]
            /\ last' = Call("lib.__delitem__", OK)
       ELSE /\ ufo' = ufo
            /\ last' = Call("lib.__delitem__", KeyError)
    /\ UNCHANGED <<layers, heap, ctorIn, ctorOut, twin>>

\* lib.clear()
LibClear(h) ==
    /\ h \in ufo.held
    /\ ufo' = [ufo EXCEPT !.bags[h.bag] = EmptyBag]
    /\ last' = Call("lib.clear", OK)
    /\ UNCHANGED <<layers, heap, ctorIn, ctorOut, twin>>

\* obj.x = value: the object is moved between two places
SetX(obj) ==
    /\ obj \in ufo.objects
    /\ ufo' = [ufo EXCEPT !.x[obj] = 1 - @]
    /\ last' = Call("__setattr__", OK)
    /\ UNCHANGED <<layers, heap, ctorIn, ctorOut, twin>>

\* font.save(path); font = Font.open(path): the caller goes on with the font
\* of the file
SaveOpen ==
    /\ ufo' = Font_open(Font_save(ufo))
    /\ last' = Call("Font.open", OK)
    /\ UNCHANGED <<layers, heap, ctorIn, ctorOut, twin>>

NextObjectLib ==
    \/ \E obj \in Objects : ObjectLib(obj)
    \/ \E h \in ufo.held, key \in LibKeys, value \in LibValues : LibSetItem(h, key, value)
    \/ \E h \in ufo.held, key \in LibKeys : LibDelItem(h, key)
    \/ \E h \in ufo.held : LibClear(h)
    \/ \E obj \in Objects : SetX(obj)
    \/ SaveOpen

SpecObjectLib == InitObjectLib /\ [][NextObjectLib]_vars

\* C19: an object without an identifier has one once its library was asked for
\* through objectLib, and an identifier once assigned is the same in every
\* later state: whatever is edited, whichever library is asked for again or
\* emptied, and when the font is saved and opened again.
C19_IdentifierStep ==
    /\ last'.op \in ObjectLibCalls => ufo'.identifier[last'.name] # NoIdentifier
    /\ \A obj \in ufo.objects :
          ufo.identifier[obj] # NoIdentifier =>
              obj \in ufo'.objects /\ ufo'.identifier[obj] = ufo.identifier[obj]

C19_IdentifierStable == [][C19_IdentifierStep]_vars

\* The font was saved and opened again, and an object of it has an identifier
\* and no entry in the library table: its library had been asked for and was
\* empty when the font was saved
C19_Witness ==
    /\ ufo.path # NoName
    /\ last.op \in ObjectLibCalls
    /\ \E obj \in ufo.objects \ {last.name} :
          /\ ufo.identifier[obj] # NoIdentifier
          /\ ufo.identifier[obj] \notin DOMAIN ufo.objectLibs[OwnerOf(obj)]
          /\ ufo.x[obj] = 1

\* C20: the bag that objectLib returns for an object shows every key set and
\* removed through the bags returned for that object before, for the font's
\* guidelines and for a glyph's guidelines, anchors, contours, points and
\* components.
C20_VisibleStep ==
    last'.op \in ObjectLibCalls =>
        \A h \in ufo.held :
            h.obj = last'.name => ufo'.bags[last'.ret] = ufo.bags[h.bag]

C20_MutationsVisible == [][C20_VisibleStep]_vars

\* objectLib returned, for an object of a glyph, a bag with a key that was set
\* through a bag returned before
C20_Witness ==
    /\ ufo.path = NoName
    /\ last.op = "Glyph.objectLib"
    /\ ufo.bags[last.ret] # EmptyBag

----------------------------------------------------------------------------
(* A font saved and opened again: its libraries are asked for, written and
   emptied, an entry of no object is put into a library table, its layers are
   renamed, and then it is saved and the file opened as a second font *)

\* The key of test_object_lib_prune's entry "aaaa": the identifier of no object
OrphanKey == NoIdentifier - 1

\* lib["public.objectLibs"]["aaaa"] = {"1": 1}
AddOrphan(owner) ==
    /\ OrphanKey \notin DOMAIN ufo.objectLibs[owner]
    /\ ufo' = [ufo EXCEPT
                 !.bags = Append(@, Bag___setitem__(EmptyBag, "1", 1)),
                 !.objectLibs[owner] =
                     [id \in DOMAIN @ \cup {OrphanKey} |->
                         IF id = OrphanKey THEN Len(ufo.bags) + 1 ELSE @[id]]]
    /\ last' = Call("objectLibs.__setitem__", OK)
    /\ UNCHANGED <<layers, heap, ctorIn, ctorOut, twin>>

\* font.layers.renameLayer(old, new)
RenameLayerOfUfo(old, new) ==
    /\ LET done == Font_renameLayer(ufo.layers, old, new, FALSE)
       IN  /\ ufo' = [ufo EXCEPT !.layers = done.layers]
           /\ last' = Call("Font.renameLayer", done.err)
    /\ UNCHANGED <<layers, heap, ctorIn, ctorOut, twin>>

\* font.newLayer(name)
NewLayerOfUfo(name) ==
    /\ Len(ufo.layers) < MaxLayers
    /\ LET done == Font_newLayer(ufo.layers, name)
       IN  /\ ufo' = [ufo EXCEPT !.layers = done.layers]
           /\ last' = Call("Font.newLayer", done.err)
    /\ UNCHANGED <<layers, heap, ctorIn, ctorOut, twin>>

\* font.save(path); reload = Font.open(path): the caller has both fonts
Reload ==
    /\ twin = NoTwin
    /\ LET got == Adopt(ufo, Font_open(Font_save(ufo)))
       IN  /\ ufo' = got.ufo
           /\ twin' = [made |-> "open", font |-> got.font]
    /\ last' = Call("Font.open", OK)
    /\ UNCHANGED <<layers, heap, ctorIn, ctorOut>>

NextReload ==
    \/ /\ twin = NoTwin
       /\ \/ \E obj \in Objects : ObjectLib(obj)
          \/ \E h \in ufo.held, key \in LibKeys, value \in LibValues : LibSetItem(h, key, value)
          \/ \E h \in ufo.held : LibClear(h)
          \/ \E owner \in Owners : AddOrphan(owner)
    \/ Reload

SpecReload == InitObjectLib /\ [][NextReload]_vars

\* The same with layers renamed and added, and no entry of no object
NextRoundTrip ==
    \/ /\ twin = NoTwin
       /\ \/ \E obj \in Objects : ObjectLib(obj)
          \/ \E h \in ufo.held, key \in LibKeys, value \in LibValues : LibSetItem(h, key, value)
          \/ \E h \in ufo.held : LibClear(h)
          \/ \E old \in LayerNames, new \in LayerNames : RenameLayerOfUfo(old, new)
          \/ \E name \in LayerNames : NewLayerOfUfo(name)
    \/ Reload

SpecRoundTrip == InitObjectLib /\ [][NextRoundTrip]_vars

\* The identifiers of the objects of an owner whose library is not empty
IdentifiersWithLib(font, bags, owner) ==
    {font.identifier[obj] : obj \in {o \in font.objects :
        /\ OwnerOf(o) = owner
        /\ font.identifier[o] # NoIdentifier
        /\ LibOf(font, bags, o) # EmptyBag}}

\* C21: after save and reload the keys of the library table of the font, and of
\* the glyph, are the identifiers of the objects whose library is not empty: an
\* empty bag and an entry of no object are not written, and every object that
\* had an identifier has one in the reloaded font, its bag empty or not.
C21_PrunedKeepsIdentifier ==
    twin.made = "open" =>
        /\ \A owner \in Owners :
              DOMAIN twin.font.objectLibs[owner] = IdentifiersWithLib(ufo, ufo.bags, owner)
        /\ \A obj \in ufo.objects :
              ufo.identifier[obj] # NoIdentifier =>
                  twin.font.identifier[obj] # NoIdentifier

\* The saved font had an entry of no object, an object with an empty bag and an
\* object with a key in its bag
C21_Witness ==
    /\ twin.made = "open"
    /\ \E owner \in Owners : OrphanKey \in DOMAIN ufo.objectLibs[owner]
    /\ \E obj \in ufo.objects :
          /\ ufo.identifier[obj] \in DOMAIN ufo.objectLibs[OwnerOf(obj)]
          /\ LibOf(ufo, ufo.bags, obj) = EmptyBag
    /\ \E obj \in ufo.objects : LibOf(ufo, ufo.bags, obj) # EmptyBag

----------------------------------------------------------------------------
(* A font deep-copied: the font is written, copied, and then the font and the
   copy are written; the dicts of both are in ufo.bags *)

DataFiles == {"a.txt"}

\* font.data[fileName] = value
DataSetItem(fileName, value) ==
    /\ ufo' = [ufo EXCEPT !.bags[ufo.data] = FakeDataSet___setitem__(@, fileName, value)]
    /\ last' = Call("FakeDataSet.__setitem__", OK)
    /\ UNCHANGED <<layers, heap, ctorIn, ctorOut, twin>>

\* del font.data[fileName]
DataDelItem(fileName) ==
    /\ LET done == FakeDataSet___delitem__(ufo.bags[ufo.data], fileName)
       IN  /\ ufo' = [ufo EXCEPT !.bags[ufo.data] = done.data]
           /\ last' = Call("FakeDataSet.__delitem__", done.err)
    /\ UNCHANGED <<layers, heap, ctorIn, ctorOut, twin>>

\* copy = deepcopy(font)
DeepCopy ==
    /\ twin = NoTwin
    /\ LET got == Font___deepcopy__(ufo)
       IN  /\ ufo' = [ufo EXCEPT !.bags = got.bags]
           /\ twin' = [made |-> "deepcopy", font |-> got.font]
    /\ last' = Call("Font.__deepcopy__", OK)
    /\ UNCHANGED <<layers, heap, ctorIn, ctorOut>>

\* The copy with the dicts of the process
Copy == [twin.font EXCEPT !.bags = ufo.bags]

\* The bags got from the copy
CopyHeld == IF twin.made = "deepcopy" THEN twin.font.held ELSE {}

\* The calls made on the copy
CopyCalls ==
    {"copy.objectLib", "copy.lib.__setitem__", "copy.__setattr__",
     "copy.data.__setitem__", "copy.renameLayer"}

\* The copy and the dicts after a call on the copy
CopyCalled(op, font) ==
    /\ twin.made = "deepcopy"
    /\ ufo' = [ufo EXCEPT !.bags = font.bags]
    /\ twin' = [twin EXCEPT !.font = [font EXCEPT !.bags = <<>>]]
    /\ last' = Call(op, OK)
    /\ UNCHANGED <<layers, heap, ctorIn, ctorOut>>

\* copy.objectLib(obj) / the copy's glyph.objectLib(obj)
CopyObjectLib(obj) ==
    /\ twin.made = "deepcopy"
    /\ obj \in twin.font.objects
    /\ LET fresh == make_identifier(Copy)
           got == IF OwnerOf(obj) = "font" THEN Font_objectLib(Copy, obj, fresh)
                  ELSE Glyph_objectLib(Copy, obj, fresh)
       IN  CopyCalled("copy.objectLib",
                      [got.ufo EXCEPT !.held = @ \cup {[obj |-> obj, bag |-> got.bag]}])

\* lib[key] = value, on a bag got from the copy
CopyLibSetItem(h, key, value) ==
    /\ twin.made = "deepcopy"
    /\ h \in CopyHeld
    /\ CopyCalled("copy.lib.__setitem__",
                  [Copy EXCEPT !.bags[h.bag] = Bag___setitem__(@, key, value)])

\* obj.x = value, on an object of the copy
CopySetX(obj) ==
    /\ twin.made = "deepcopy"
    /\ obj \in twin.font.objects
    /\ CopyCalled("copy.__setattr__", [Copy EXCEPT !.x[obj] = 1 - @])

\* copy.data[fileName] = value
CopyDataSetItem(fileName, value) ==
    /\ twin.made = "deepcopy"
    /\ CopyCalled("copy.data.__setitem__",
                  [Copy EXCEPT !.bags[twin.font.data] =
                                   FakeDataSet___setitem__(@, fileName, value)])

\* copy.renameLayer(old, new)
CopyRenameLayer(old, new) ==
    /\ twin.made = "deepcopy"
    /\ CopyCalled("copy.renameLayer",
                  [Copy EXCEPT !.layers = Font_renameLayer(@, old, new, FALSE).layers])

NextDeepCopy ==
    \/ \E obj \in Objects : ObjectLib(obj)
    \/ \E h \in ufo.held, key \in LibKeys, value \in LibValues : LibSetItem(h, key, value)
    \/ \E obj \in Objects : SetX(obj)
    \/ \E fileName \in DataFiles, value \in LibValues : DataSetItem(fileName, value)
    \/ \E fileName \in DataFiles : DataDelItem(fileName)
    \/ \E new \in LayerNames : RenameLayerOfUfo(ufo.layers[1].name, new)
    \/ DeepCopy
    \/ \E obj \in Objects : CopyObjectLib(obj)
    \/ \E h \in CopyHeld, key \in LibKeys, value \in LibValues :
          CopyLibSetItem(h, key, value)
    \/ \E obj \in Objects : CopySetX(obj)
    \/ \E fileName \in DataFiles, value \in LibValues : CopyDataSetItem(fileName, value)
    \/ \E new \in LayerNames : CopyRenameLayer(Copy.layers[1].name, new)

\* The font holds one library-bearing object: a guideline of the font, or a
\* point of a glyph
CopiedObjects == FontObjects \cup {"glyph.contours[1].points[0]"}

InitDeepCopy ==
    /\ \E obj \in CopiedObjects : ufo = NewUfo({obj})
    /\ twin = NoTwin
    /\ layers = LayerSet_default
    /\ heap = <<>>
    /\ last = [NoCall EXCEPT !.op = "Font"]
    /\ ctorIn = NoCtor
    /\ ctorOut = NoCtor

SpecDeepCopy == InitDeepCopy /\ [][NextDeepCopy]_vars

\* What is seen through a font: its objects with their identifiers, attributes
\* and libraries, its layers and its data store
Seen(font, bags) ==
    [objects |-> font.objects, identifier |-> font.identifier, x |-> font.x,
     libs |-> [obj \in font.objects |-> LibOf(font, bags, obj)],
     layers |-> font.layers, data |-> bags[font.data]]

\* C22: g = deepcopy(f) equals f right after the copy and has no path; after
\* that no write through g (to an object, a layer, the data store or a bag got
\* from g.objectLib) is seen through f, and no write through f is seen through g.
C22_CopyStep ==
    /\ twin = NoTwin /\ twin' # NoTwin =>
          /\ Font___eq__(ufo', twin'.font, ufo'.bags)
          /\ Seen(twin'.font, ufo'.bags) = Seen(ufo', ufo'.bags)
          /\ twin'.font.path = NoName
    /\ twin # NoTwin =>
          IF last'.op \in CopyCalls
          THEN Seen(ufo', ufo'.bags) = Seen(ufo, ufo.bags)
          ELSE Seen(twin'.font, ufo'.bags) = Seen(twin.font, ufo.bags)

C22_DeepCopyIndependent == [][C22_CopyStep]_vars

\* The font was copied when it had a key in a bag and a file in its data
\* store; since then the copy's bag and data store were written, and differ
C22_Witness ==
    /\ twin.made = "deepcopy"
    /\ last.op \in CopyCalls
    /\ ufo.bags[ufo.data] # EmptyBag
    /\ ufo.bags[twin.font.data] # ufo.bags[ufo.data]
    /\ \E obj \in ufo.objects :
          /\ LibOf(ufo, ufo.bags, obj) # EmptyBag
          /\ LibOf(twin.font, ufo.bags, obj) # LibOf(ufo, ufo.bags, obj)

-----------------------------------------------------------------------------
(* Points made and points added through the point pen of a glyph              *)

MaxPoints == 2          \* points added to the path of the pen

\* The segment types handed in: the five of the point pen protocol (None, here
\* NoName, for an off-curve point), and two strings that are none of them
SegmentTypes == {"move", "line", NoName, "curve", "qcurve", "offcurve", "arc"}

Coordinates == {<<0, 0>>, <<1, 2>>}

InitPen ==
    /\ heap = <<NewGlyphRec("a")>>
    /\ layers = LayerSet_default
    /\ last = NoCall
    /\ ctorIn = NoCtor
    /\ ctorOut = NoCtor
    /\ ufo = NoUfo
    /\ twin = NoTwin

\* pen = glyph.getPointPen(); pen.beginPath(): the one path of the glyph
BeginPath ==
    /\ Len(heap[1].contours) = 0
    /\ heap' = [heap EXCEPT ![1] = Glyph_appendContour(@, <<>>)]
    /\ last' = Call("GlyphPointPen.beginPath", OK)
    /\ UNCHANGED <<layers, ctorIn, ctorOut, ufo, twin>>

\* pen.addPoint(pt, segmentType)
AddPoint(pt, segmentType) ==
    /\ Len(heap[1].contours) > 0
    /\ \/ Len(heap[1].contours[Len(heap[1].contours)]) < MaxPoints
       \/ encodeSegmentType(segmentType).err # OK
    /\ LET done == GlyphPointPen_addPoint(heap[1], pt, segmentType)
       IN  /\ heap' = [heap EXCEPT ![1] = done.glyph]
           /\ last' = [Call("GlyphPointPen.addPoint", done.err) EXCEPT
                          !.name = segmentType, !.ret = done.code]
    /\ UNCHANGED <<layers, ctorIn, ctorOut, ufo, twin>>

\* Point(x, y, segmentType)
NewPoint(pt, segmentType) ==
    /\ ctorIn' = [call |-> "Point", x |-> pt[1], y |-> pt[2], segmentType |-> segmentType]
    /\ ctorOut' = Point___init__(pt[1], pt[2], segmentType)
    /\ last' = [Call("Point", ctorOut'.err) EXCEPT !.name = segmentType]
    /\ UNCHANGED <<layers, heap, ufo, twin>>

NextPen ==
    \/ BeginPath
    \/ \E pt \in Coordinates, segmentType \in SegmentTypes : AddPoint(pt, segmentType)
    \/ \E pt \in Coordinates, segmentType \in SegmentTypes : NewPoint(pt, segmentType)

SpecPen == InitPen /\ [][NextPen]_vars

\* The segment type under which a kind of point is handed in: None for an
\* off-curve point, the name of the kind for the others
Spelled(kind) == IF kind = "offcurve" THEN NoName ELSE kind

PointsOfPen(hp) ==
    IF Len(hp[1].contours) = 0 THEN <<>> ELSE hp[1].contours[Len(hp[1].contours)]

C25_KindStep ==
    /\ last'.op = "GlyphPointPen.addPoint" =>
          /\ \A c \in 0..4 :
                last'.name = Spelled(PointTypes[c + 1]) =>
                   /\ last'.err = OK
                   /\ last'.ret = c
                   /\ \E pt \in Coordinates :
                         PointsOfPen(heap') =
                            Append(PointsOfPen(heap), Pt(pt[1], pt[2], PointTypes[c + 1]))
          /\ last'.name \notin {Spelled(PointTypes[c + 1]) : c \in 0..4} =>
                /\ last'.err = InvalidSegmentKind
                /\ heap' = heap
    /\ last'.op = "Point" =>
          /\ \A c \in 0..4 :
                last'.name = Spelled(PointTypes[c + 1]) =>
                   /\ ctorOut'.err = OK
                   /\ ctorOut'.point = Pt(ctorIn'.x, ctorIn'.y, PointTypes[c + 1])
          /\ last'.name \notin {Spelled(PointTypes[c + 1]) : c \in 0..4} =>
                /\ ctorOut'.err = InvalidSegmentKind
                /\ heap' = heap

\* C25: making a Point or calling addPoint on the point pen of a glyph accepts
\* each of the five kinds move, line, offcurve, curve and qcurve, with the codes
\* 0, 1, 2, 3, 4 in that order, and fails with InvalidSegmentKind for any other
\* value, adding no point
C25_SegmentKinds == [][C25_KindStep]_vars

\* An off-curve point and a qcurve point are on the path, and a segment type
\* that is none of the five was refused
C25_Witness ==
    /\ last.op = "GlyphPointPen.addPoint" /\ last.err = InvalidSegmentKind
    /\ \E i, j \in 1..Len(PointsOfPen(heap)) :
          PointsOfPen(heap)[i].type = "offcurve" /\ PointsOfPen(heap)[j].type = "qcurve"

====
